---- MODULE Spec2Model ----
(***************************************************************************)
(* Execution core of tortoise-orm: the MySQL client (connection, the       *)
(* reconnect-once and exception-translation wrappers, transaction scopes)  *)
(* and the base executor (insert-plan cache, relation prefetch).           *)
(*                                                                         *)
(* Each subsystem has its own specification over the shared variables:     *)
(*   SpecClient    cooperative tasks calling the client's primitives       *)
(*   SpecTxn       transaction scopes of one flow per connection name      *)
(*   SpecInsert    BaseExecutor.execute_insert and INSERT_CACHE            *)
(*   SpecPrefetch  BaseExecutor.fetch_for_list and the prefetch engine     *)
(***************************************************************************)
EXTENDS Integers, Sequences, FiniteSets, Bags, TLC

VARIABLES
    client,     \* MySQLClient: _connection, open handles, _lock, server state
    task,       \* per cooperative task: position in the call it is making
    last,       \* the call that returned to its caller in the latest step
    owner,      \* per connection name: the owning client's handle, open handles, _lock
    scope,      \* the TransactionWrapper objects created so far, their calls in flight
    ctx,        \* current_transaction_map: per connection name, the current scope
    txlast,     \* the transaction call that returned in the latest step
    INSERT_CACHE,   \* executor.INSERT_CACHE: key -> (columns, db columns, statement)
    inserts,    \* the execute_insert calls: builds per key, calls in flight
    world,      \* the database tables and the instance list a caller holds
    executor,   \* a BaseExecutor: prefetch_map and _prefetch_queries
    fetching,   \* per caller of the executor: the call it is awaiting in
    fetched,    \* the executor call that began or ended in the latest step
    begun,      \* how many calls of the executor have begun
    clients,    \* MySQLClient objects: their parameters, _template, last error
    connecting  \* the create_connection calls begun and those awaiting connect

clientVars == <<client, task, last>>

txnVars == <<owner, scope, ctx, txlast>>

insertVars == <<INSERT_CACHE, inserts>>

prefetchVars == <<world, executor, fetching, fetched, begun>>

connectVars == <<clients, connecting>>

vars == <<client, task, last, owner, scope, ctx, txlast, INSERT_CACHE, inserts,
          world, executor, fetching, fetched, begun, clients, connecting>>

(***************************************************************************)
(* Bounds                                                                  *)
(***************************************************************************)
NumTasks == 2       \* cooperative tasks sharing one client
MaxCalls == 3       \* calls made on the client, all tasks together
MaxConns == 3       \* connections the server hands out
MaxScopes == 2      \* transaction scopes created
MaxTxCalls == 3     \* calls begun on the owning client and its scopes
MaxInserts == 3     \* execute_insert calls made
MaxLen == 2         \* instances in the list given to fetch_for_list
MaxFetches == 2     \* calls begun on the executor of model A
MaxConnects == 3    \* create_connection calls begun on the client objects

Tasks == 1..NumTasks

(***************************************************************************)
(* MySQL client (src/tortoise/backends/mysql/client.py)                    *)
(***************************************************************************)

\* self._connection = None
None == 0

\* Failure classes a statement can end with: the pymysql.err classes and a
\* generic RuntimeError.
DriverErrors ==
    { "pymysql.err.OperationalError", "pymysql.err.InternalError",
      "pymysql.err.InterfaceError", "pymysql.err.ProgrammingError",
      "pymysql.err.DataError", "pymysql.err.NotSupportedError",
      "pymysql.err.IntegrityError" }

Failures == DriverErrors \cup {"RuntimeError"}

\* The failures the client design classifies as connection-level.
ConnectionLevel ==
    { "pymysql.err.OperationalError", "pymysql.err.InternalError",
      "pymysql.err.InterfaceError", "RuntimeError" }

\* The kind of a failure.
KindOf(out) == IF out \in ConnectionLevel THEN "connection-level" ELSE "other"

\* Plausible slip: the reconnection is set off by any failure.
RetryCaught_any == Failures

\* retry_connection: the except clause of the first attempt.
RetryCaught ==
    { "RuntimeError", "pymysql.err.OperationalError",
      "pymysql.err.InternalError", "pymysql.err.InterfaceError" }

\* pymysql.err.DatabaseError and its subclasses (db_delete's except clause).
\* InterfaceError derives from pymysql.err.Error, not from DatabaseError.
PymysqlDatabaseError ==
    { "pymysql.err.OperationalError", "pymysql.err.InternalError",
      "pymysql.err.ProgrammingError", "pymysql.err.DataError",
      "pymysql.err.NotSupportedError", "pymysql.err.IntegrityError" }

\* translate_exceptions: what the caller receives for what left the
\* reconnect wrapper.
translate_exceptions(exc) ==
    IF exc \in { "pymysql.err.OperationalError", "pymysql.err.ProgrammingError",
                 "pymysql.err.DataError", "pymysql.err.InternalError",
                 "pymysql.err.NotSupportedError" }
    THEN "OperationalError"
    ELSE IF exc = "pymysql.err.IntegrityError" THEN "IntegrityError"
    ELSE exc

\* The three wrapped execution primitives.
Primitives == {"execute_query", "execute_insert", "execute_script"}

\* What a primitive returns on success.
ReturnValue(op) ==
    CASE op = "execute_query" -> "rows"
      [] op = "execute_insert" -> "lastrowid"
      [] OTHER -> "None"

\* Server error 1008 (database does not exist): OperationalError, or
\* InternalError with an older pymysql.
MissingDbErrors == {"pymysql.err.OperationalError", "pymysql.err.InternalError"}

\* A task between calls. Of a call: the handle its attempt captured, the
\* times the wrapped function was entered, statements issued, _close() and create_connection() calls
\* of its reconnection, the kind of failure that set the reconnection off
\* and how the reconnection ended, how the attempt
\* that ended last ended (none during a reconnection), whether its first
\* DROP failed on a missing database, what left retry_connection and what
\* reached the caller.
IdleTask ==
    [ pc |-> "idle", op |-> "none", conn |-> None, attempt |-> 0,
      stmts |-> 0, closes |-> 0, creates |-> 0, trigger |-> "none",
      reconnected |-> "none",
      out |-> "none", missing |-> FALSE, raw |-> "none", result |-> "none",
      disconnected |-> FALSE ]

\* asyncio.Lock.release: the first waiter, if any, is handed the lock.
release(lock) ==
    IF lock.waiters = <<>>
    THEN [lock EXCEPT !.holder = None]
    ELSE [holder |-> Head(lock.waiters), waiters |-> Tail(lock.waiters)]

\* asyncio.Lock.acquire by task t: immediate when the lock is free, else
\* t queues behind the earlier waiters.
acquire(lock, t) ==
    IF lock.holder = None
    THEN [lock EXCEPT !.holder = t]
    ELSE [lock EXCEPT !.waiters = Append(@, t)]

\* ConnectionWrapper.__aenter__ / __aexit__ (tortoise.backends.base.client):
\* the scoped, exclusive acquisition of the connection.
aenter(lock, t) == acquire(lock, t)

aexit(lock) == release(lock)

\* MySQLClient._close: close the current handle if there is one; the
\* handle itself stays in self._connection.
_close(c) ==
    IF c.connection # None
    THEN [c EXCEPT !.open = @ \ {c.connection}]
    ELSE c

\* MySQLClient.close
close(c) == [_close(c) EXCEPT !.connection = None]

\* db_delete after execute_script came back with `result`: a raw pymysql
\* DatabaseError is swallowed, then close(); anything else propagates and
\* close() is not reached.
db_delete_finish(c, result) ==
    IF result = "None" \/ result \in PymysqlDatabaseError
    THEN [c |-> close(c), result |-> "None"]
    ELSE [c |-> c, result |-> result]

\* db_create after execute_script came back with `result`: close() when
\* it returned; a failure propagates and close() is not reached.
db_create_finish(c, result) ==
    IF result = "None"
    THEN [c |-> close(c), result |-> "None"]
    ELSE [c |-> c, result |-> result]

\* The call of task record tr ends: `raw` leaves retry_connection, passes
\* translate_exceptions and reaches the caller (db_delete's own handler
\* and the close() of db_create and db_delete included).
FinishCall(c, tr, raw) ==
    LET translated == translate_exceptions(raw)
        fin == IF tr.op = "db_delete"
               THEN db_delete_finish(c, translated)
               ELSE IF tr.op = "db_create"
               THEN db_create_finish(c, translated)
               ELSE [c |-> c, result |-> translated]
    IN  [c |-> fin.c,
         t |-> [tr EXCEPT !.pc = "done", !.raw = raw, !.result = fin.result]]

\* cursor.execute: the statement of task t goes to the driver on the
\* handle the attempt captured. client.issuer is the task whose call issued
\* the latest statement.
Issue(c, tr, t) ==
    [c |-> [c EXCEPT !.issuer = t],
     t |-> [tr EXCEPT !.pc = "exec", !.stmts = @ + 1]]

\* The wrapped function is entered by task t: acquire_connection() captures
\* self._connection, __aenter__ acquires the lock; with the lock in hand
\* connection.cursor() on None is an AttributeError, which no wrapper
\* catches; otherwise the statement is issued.
StartAttempt(c, tr, t) ==
    LET tr1 == [tr EXCEPT !.conn = c.connection, !.attempt = @ + 1]
    IN  IF c.lock.holder # None
        THEN [c |-> [c EXCEPT !.lock = aenter(@, t)],
              t |-> [tr1 EXCEPT !.pc = "wait"]]
        ELSE IF c.connection = None
        THEN FinishCall(c, [tr1 EXCEPT !.out = "AttributeError"], "AttributeError")
        ELSE Issue([c EXCEPT !.lock = aenter(@, t)], tr1, t)

\* The reconnection begins with the lock held: _close(), then
\* create_connection(with_db=True) awaits the driver. client.stale holds
\* the handles reconnections have closed.
BeginReconnect(c, tr) ==
    [c |-> [_close(c) EXCEPT !.stale = IF c.connection # None
                                       THEN @ \cup {c.connection} ELSE @],
     t |-> [tr EXCEPT !.pc = "reconn", !.closes = @ + 1, !.creates = @ + 1]]

\* Plausible slip: retry_connection that reconnects again when the retried
\* attempt fails too.
retry_connection_loop(c, tr, t, out) ==
    IF out \in RetryCaught /\ tr.attempt <= 2
    THEN IF c.lock.holder = None
         THEN BeginReconnect([c EXCEPT !.lock = acquire(@, t)],
                             [tr EXCEPT !.out = "none", !.trigger = KindOf(out)])
         ELSE [c |-> [c EXCEPT !.lock = acquire(@, t)],
               t |-> [tr EXCEPT !.pc = "waitR", !.out = "none",
                                !.trigger = KindOf(out)]]
    ELSE FinishCall(c, tr, out)

\* retry_connection.wrapped once an attempt raised `out`, the connection
\* lock already released by __aexit__: a first attempt that fails with a
\* caught class takes the lock for one reconnection; every other failure
\* propagates.
retry_connection(c, tr, t, out) ==
    IF tr.attempt = 1 /\ out \in RetryCaught
    THEN IF c.lock.holder = None
         THEN BeginReconnect([c EXCEPT !.lock = acquire(@, t)],
                             [tr EXCEPT !.out = "none", !.trigger = KindOf(out)])
         ELSE [c |-> [c EXCEPT !.lock = acquire(@, t)],
               t |-> [tr EXCEPT !.pc = "waitR", !.out = "none",
                                !.trigger = KindOf(out)]]
    ELSE FinishCall(c, tr, out)

\* How the driver can end a statement of task record tr: a closed handle
\* refuses it (aiomysql raises InterfaceError), DROP DATABASE succeeds only
\* while the database exists and CREATE DATABASE only while it does not.
Outcomes(c, tr) ==
    IF tr.conn \notin c.open THEN {"pymysql.err.InterfaceError"}
    ELSE IF tr.op = "db_delete" /\ ~c.dbExists THEN Failures
    ELSE IF tr.op = "db_create" /\ c.dbExists THEN Failures
    ELSE Failures \cup {"ok"}

\* How aiomysql.connect can end: a fresh handle, or OperationalError. The
\* database named in the parameters must exist.
ConnectOutcomes(c, with_db) ==
    IF c.created < MaxConns /\ (with_db => c.dbExists)
    THEN {"ok", "pymysql.err.OperationalError"}
    ELSE {"pymysql.err.OperationalError"}

\* create_connection once aiomysql.connect returned.
create_connection(c, out) ==
    IF out = "ok"
    THEN [c EXCEPT !.connection = c.created + 1, !.open = @ \cup {c.created + 1},
                   !.created = @ + 1]
    ELSE c

\* The step of task t ends in r: a call that reached its caller in this
\* step is shown in `last` (until the next step) and the task is free for
\* its next call.
Apply(r, t) ==
    /\ UNCHANGED <<txnVars, insertVars, prefetchVars, connectVars>>
    /\ client' = r.c
    /\ IF r.t.pc = "done"
       THEN /\ last' = [r.t EXCEPT !.pc = "done", !.conn = None,
                                   !.disconnected = (r.c.connection = None)]
            /\ task' = [task EXCEPT ![t] = IdleTask]
       ELSE /\ last' = IdleTask
            /\ task' = [task EXCEPT ![t] = r.t]

\* A task calls execute_query, execute_insert or execute_script.
Call(t, op) ==
    /\ task[t].pc = "idle"
    /\ client.calls < MaxCalls
    /\ op \in Primitives
    /\ Apply(StartAttempt([client EXCEPT !.calls = @ + 1],
                          [task[t] EXCEPT !.op = op], t), t)

\* A task that waited in __aenter__ is handed the lock and runs on.
Resume(t) ==
    /\ task[t].pc = "wait"
    /\ client.lock.holder = t
    /\ IF task[t].conn = None
       THEN Apply(FinishCall([client EXCEPT !.lock = aexit(@)],
                             [task[t] EXCEPT !.out = "AttributeError"],
                             "AttributeError"), t)
       ELSE Apply(Issue(client, task[t], t), t)

\* The statement of task t ends with `out`; __aexit__ releases the lock.
ExecDone(t, out) ==
    /\ task[t].pc = "exec"
    /\ out \in Outcomes(client, task[t])
    /\ LET c1 == [client EXCEPT
                    !.lock = aexit(@),
                    !.dbExists = IF task[t].op = "db_delete" /\ out = "ok"
                                 THEN FALSE
                                 ELSE IF task[t].op = "db_create" /\ out = "ok"
                                 THEN TRUE ELSE @]
           tr == [task[t] EXCEPT
                    !.out = out,
                    !.missing = \/ @
                                \/ /\ task[t].op = "db_delete"
                                   /\ task[t].attempt = 1
                                   /\ task[t].conn \in client.open
                                   /\ ~client.dbExists
                                   /\ out \in MissingDbErrors]
       IN  IF out = "ok"
           THEN Apply(FinishCall(c1, tr, ReturnValue(tr.op)), t)
           ELSE Apply(retry_connection(c1, tr, t, out), t)

\* A task that waited for the reconnection lock is handed it.
ResumeReconnect(t) ==
    /\ task[t].pc = "waitR"
    /\ client.lock.holder = t
    /\ Apply(BeginReconnect(client, task[t]), t)

\* Plausible slip: the lock is released only when the reconnection
\* succeeded.
EndReconnect_held(c, out) ==
    IF out = "ok"
    THEN [create_connection(c, out) EXCEPT !.lock = release(@)]
    ELSE c

\* The end of the reconnection, aiomysql.connect having ended with `out`:
\* whatever create_connection raised is swallowed, and the lock is
\* released in the finally clause.
EndReconnect(c, out) ==
    [create_connection(c, out) EXCEPT !.lock = release(@)]

\* create_connection(with_db=True) of the reconnection of task t ends; the
\* function is then entered again.
ReconnDone(t, out) ==
    /\ task[t].pc = "reconn"
    /\ out \in ConnectOutcomes(client, TRUE)
    /\ Apply(StartAttempt(EndReconnect(client, out),
                          [task[t] EXCEPT !.reconnected =
                              IF out = "ok" THEN "ok" ELSE "failed"], t), t)

\* A task calls create_connection(with_db=True) itself, or db_create or
\* db_delete, which begin with create_connection(with_db=False).
Connect(t, op) ==
    /\ task[t].pc = "idle"
    /\ client.calls < MaxCalls
    /\ op \in {"create_connection", "db_create", "db_delete"}
    /\ Apply([c |-> [client EXCEPT !.calls = @ + 1],
              t |-> [task[t] EXCEPT !.pc = "connect", !.op = op]], t)

\* aiomysql.connect of that call ends: OperationalError becomes
\* DBConnectionError; db_create and db_delete go on to execute_script.
ConnectDone(t, out) ==
    /\ task[t].pc = "connect"
    /\ out \in ConnectOutcomes(client, task[t].op = "create_connection")
    /\ LET c1 == create_connection(client, out)
           ends(res) == [c |-> c1,
                         t |-> [task[t] EXCEPT !.pc = "done", !.raw = res,
                                               !.result = res]]
       IN  IF out # "ok"
           THEN Apply(ends("DBConnectionError"), t)
           ELSE IF task[t].op \in {"db_create", "db_delete"}
           THEN Apply(StartAttempt(c1, task[t], t), t)
           ELSE Apply(ends("None"), t)

\* A task calls close().
Close(t) ==
    /\ task[t].pc = "idle"
    /\ client.calls < MaxCalls
    /\ Apply([c |-> [close(client) EXCEPT !.calls = @ + 1],
              t |-> [task[t] EXCEPT !.pc = "done", !.op = "close",
                                    !.raw = "None", !.result = "None"]], t)


(***************************************************************************)
(* Transaction scopes (src/tortoise/backends/mysql/client.py, 105-210)     *)
(***************************************************************************)

\* The connection names in use: one client, whose scopes share its name.
ConnNames == {"default"}

\* One call in a bag of calls.
One(call) == SetToBag({call})

\* TransactionWrapper.__init__(connection_name, connection, lock). starts
\* holds the start() calls awaiting begin(): for each the context value at
\* the call and whether it is the first or the retried attempt.
NewScope(name, connection) ==
    [ name |-> name, conn |-> connection, started |-> FALSE,
      finalized |-> FALSE, old |-> None, stmts |-> 0, returned |-> 0,
      pending |-> "none", before |-> None, starts |-> EmptyBag ]

\* Failures of a transaction statement: one class that retry_connection
\* catches and one that it lets through.
TxFailures == {"pymysql.err.OperationalError", "pymysql.err.ProgrammingError"}

\* How the driver ends begin(), commit(), rollback() or a cursor's
\* execute() on handle conn of the client named name: None has no such
\* method, a closed handle refuses.
TxOutcomes(name, conn) ==
    IF conn = None THEN {"AttributeError"}
    ELSE IF conn \notin owner[name].open THEN {"pymysql.err.InterfaceError"}
    ELSE TxFailures \cup {"ok"}

\* TransactionWrapper.start up to its await: BEGIN goes to the driver (None
\* has no begin method) and the call is suspended; the context is not yet
\* read. cur is the context value at the call.
start(sc, cur) ==
    IF sc.conn = None
    THEN [ sc |-> sc, result |-> "AttributeError" ]
    ELSE [ sc |-> [sc EXCEPT !.starts = @ (+) One([before |-> cur,
                                                    attempt |-> 1])],
           result |-> "pending" ]

\* TransactionWrapper.start under retry_connection after begin() of `call`
\* has ended with `out`, cur being the context value now. A begin() that
\* returned is followed by the two context lines. A caught failure of the
\* first attempt goes for the lock ("retry"); any other failure, and every
\* failure of the retried attempt, propagates.
start_done(s, sc, cur, call, out) ==
    LET rest == [sc EXCEPT !.starts = @ (-) One(call)]
    IN  IF out = "ok"
        THEN [ sc |-> [rest EXCEPT !.started = TRUE, !.old = cur],
               cur |-> s, result |-> "None" ]
        ELSE IF out \in RetryCaught /\ call.attempt = 1
        THEN [ sc |-> rest, cur |-> cur, result |-> "retry" ]
        ELSE [ sc |-> rest, cur |-> cur, result |-> out ]

\* retry_connection of a start() call once the lock has been taken, _close
\* has closed the shared handle and the lock has been released: begin() is
\* issued again on the closed handle.
retry_start(sc, call) ==
    [sc EXCEPT !.starts = @ (+) One([before |-> call.before, attempt |-> 2])]

\* Plausible slip: commit that does not set the finalized flag.
commit_unflagged(sc, cur) ==
    IF sc.finalized
    THEN [ sc |-> sc, result |-> "TransactionManagementError" ]
    ELSE IF sc.conn = None
    THEN [ sc |-> sc, result |-> "AttributeError" ]
    ELSE [ sc |-> [sc EXCEPT !.stmts = @ + 1, !.pending = "commit",
                             !.before = cur],
           result |-> "pending" ]

\* TransactionWrapper.commit up to its await: a finalized scope refuses;
\* otherwise the flag is set and the COMMIT goes to the driver (None has no
\* commit method). cur is the context value at the call.
commit(sc, cur) ==
    IF sc.finalized
    THEN [ sc |-> sc, result |-> "TransactionManagementError" ]
    ELSE IF sc.conn = None
    THEN [ sc |-> [sc EXCEPT !.finalized = TRUE], result |-> "AttributeError" ]
    ELSE [ sc |-> [sc EXCEPT !.finalized = TRUE, !.stmts = @ + 1,
                             !.pending = "commit", !.before = cur],
           result |-> "pending" ]

\* TransactionWrapper.rollback up to its await.
rollback(sc, cur) ==
    IF sc.finalized
    THEN [ sc |-> sc, result |-> "TransactionManagementError" ]
    ELSE IF sc.conn = None
    THEN [ sc |-> [sc EXCEPT !.finalized = TRUE], result |-> "AttributeError" ]
    ELSE [ sc |-> [sc EXCEPT !.finalized = TRUE, !.stmts = @ + 1,
                             !.pending = "rollback", !.before = cur],
           result |-> "pending" ]

\* commit and rollback after the await, the statement having ended with
\* `out`: the context is set back to the recorded value when the statement
\* returned; a failure propagates before that.
finalize_done(sc, cur, out) ==
    IF out = "ok"
    THEN [ sc |-> [sc EXCEPT !.returned = @ + 1, !.pending = "none",
                             !.before = None],
           cur |-> sc.old, result |-> "None" ]
    ELSE [ sc |-> [sc EXCEPT !.pending = "none", !.before = None],
           cur |-> cur, result |-> out ]

\* txlast: the call that ended in the latest step (op, scope), what the
\* caller received, whether the scope was finalized and what the context
\* held when the call was made, whether the call issued its statement;
\* and the calls ended so far.
NoTxCall(calls) ==
    [ op |-> "none", scope |-> None, result |-> "none", finalized |-> FALSE,
      before |-> None, stmt |-> FALSE, calls |-> calls ]

TxCalls == txlast.calls

\* A call holding or queued for the lock of a client. scope is the scope
\* it was made on (None: the owning client) and kind where it stands:
\* "enter" in ConnectionWrapper.__aenter__ of an execute attempt (conn is
\* the handle acquire_connection captured), "retry" on line 40 of
\* retry_connection after a failed statement, "start" there after a failed
\* begin() (before is the context value at the start() call).
LockCall(who, kind, attempt, conn, before) ==
    [ scope |-> who, kind |-> kind, attempt |-> attempt, conn |-> conn,
      before |-> before ]

RECURSIVE Starting(_)
\* The start() calls awaiting begin() on the first n scopes.
Starting(n) ==
    IF n = 0 THEN 0 ELSE BagCardinality(scope[n].starts) + Starting(n - 1)

RECURSIVE Queued(_)
\* The calls holding or queued for the locks of the clients named in names.
Queued(names) ==
    IF names = {} THEN 0
    ELSE LET n == CHOOSE n \in names : TRUE
         IN  Len(owner[n].lock) + Queued(names \ {n})

\* The calls in flight: commit and rollback calls awaiting their statement,
\* start() calls awaiting begin(), and the calls holding or queued for the
\* lock of a client (every execute call in flight is one of these).
PendingCalls ==
    Cardinality({ s \in 1..Len(scope) : scope[s].pending # "none" })
    + Starting(Len(scope)) + Queued(ConnNames)

\* MySQLClient.__init__: no handle, a free lock. lock is the queue of the
\* asyncio.Lock with its holder at the head; step tells what the holder
\* does: "execute" awaits its statement, "connect" awaits aiomysql.connect
\* in a reconnection, "idle" has been handed the lock and has not run yet
\* (or the lock is free). created counts the handles made.
NewOwner ==
    [ connection |-> None, open |-> {}, created |-> 0, lock |-> <<>>,
      step |-> "idle" ]

\* How aiomysql.connect ends for the owning client.
OwnerConnects == {"ok", "pymysql.err.OperationalError"}

\* What the caller of an execute primitive on `who` receives, `raw` having
\* left retry_connection; stmt tells whether the call issued a statement.
\* A call still in flight is not recorded.
Executed(who, raw, stmt) ==
    IF raw = "pending" THEN NoTxCall(TxCalls)
    ELSE [ op |-> "execute", scope |-> who,
           result |-> translate_exceptions(raw), finalized |-> FALSE,
           before |-> None, stmt |-> stmt, calls |-> TxCalls + 1 ]

\* A flow calls create_connection(with_db) on the owning client, whatever
\* handle it holds, and aiomysql.connect ends with `out`: the fresh handle
\* replaces the one in _connection, which is not closed. (The call takes
\* effect when connect returns; it takes no lock.)
TxConnect(name, out) ==
    /\ TxCalls + PendingCalls < MaxTxCalls
    /\ out \in OwnerConnects
    /\ owner' = [owner EXCEPT ![name] = create_connection(@, out)]
    /\ txlast' = [NoTxCall(TxCalls + 1) EXCEPT
                    !.op = "create_connection",
                    !.result = IF out = "ok" THEN "None"
                               ELSE "DBConnectionError"]
    /\ UNCHANGED <<scope, ctx>>
    /\ UNCHANGED <<clientVars, insertVars, prefetchVars, connectVars>>

\* An execute attempt whose __aenter__ has the lock (it heads the queue):
\* connection.cursor() on None is an AttributeError, which leaves the
\* scoped acquisition (the lock is released) and every wrapper; otherwise
\* the statement goes to the driver with the lock held.
locked_enter(ow) ==
    IF Head(ow.lock).conn = None
    THEN [ ow |-> [ow EXCEPT !.lock = Tail(@)], result |-> "AttributeError" ]
    ELSE [ ow |-> [ow EXCEPT !.step = "execute"], result |-> "pending" ]

\* execute_query, execute_insert or execute_script entered for attempt
\* `call`: acquire_connection has captured the handle, __aenter__ takes the
\* lock when it is free and queues for it otherwise.
enter(ow, call) ==
    IF ow.lock # <<>>
    THEN [ ow |-> [ow EXCEPT !.lock = Append(@, call)], result |-> "pending" ]
    ELSE locked_enter([ow EXCEPT !.lock = <<call>>])

\* _close() called on a scope over handle conn: the handle is closed, then
\* the log line fails on the scope's missing _template (its __init__ does
\* not run the client's).
scope_close(ow, conn) == [ow EXCEPT !.open = @ \ {conn}]

\* retry_connection's reconnection on an owning client ow up to its await,
\* the lock in hand: _close closes the handle and keeps it in _connection,
\* create_connection awaits aiomysql.connect.
retry_close(ow) == [_close(ow) EXCEPT !.step = "connect"]

\* retry_connection of an execute call with the lock in hand (the call
\* heads the queue), conn being the handle of the scope it was made on. On
\* the owning client the reconnection runs to its await. On a scope _close
\* fails after closing the handle, which is swallowed before
\* create_connection is reached; the lock is released and the function is
\* entered again.
locked_retry(ow, conn) ==
    IF Head(ow.lock).scope = None
    THEN [ ow |-> retry_close(ow), result |-> "pending" ]
    ELSE enter([scope_close(ow, conn) EXCEPT !.lock = Tail(@)],
               LockCall(Head(ow.lock).scope, "enter", 2, conn, None))

\* retry_connection.wrapped once the first attempt of an execute call on
\* `who` raised a caught failure, the lock already released by __aexit__:
\* line 40 takes the lock when it is free and queues for it otherwise.
retry(ow, who, conn) ==
    LET call == LockCall(who, "retry", 1, None, None)
    IN  IF ow.lock # <<>>
        THEN [ ow |-> [ow EXCEPT !.lock = Append(@, call)],
               result |-> "pending" ]
        ELSE locked_retry([ow EXCEPT !.lock = <<call>>], conn)

\* The end of the owner's reconnection, connect ending with `out`:
\* create_connection installs a fresh handle or, failing, nothing; the
\* lock goes to the next in the queue.
reconnect(ow, out) ==
    [create_connection(ow, out) EXCEPT !.lock = Tail(@), !.step = "idle"]

\* The handle of the client named name as `who` holds it: the owning
\* client its current one, a scope the one it was created over.
HandleOf(name, who) ==
    IF who = None THEN owner[name].connection ELSE scope[who].conn

\* A flow calls execute_query, execute_insert or execute_script on the
\* owning client (who = None) or on scope who, which inherits them.
Execute(name, who) ==
    /\ TxCalls + PendingCalls < MaxTxCalls
    /\ who # None => scope[who].name = name
    /\ LET call == LockCall(who, "enter", 1, HandleOf(name, who), None)
           r == enter(owner[name], call)
       IN  /\ owner' = [owner EXCEPT ![name] = r.ow]
           /\ txlast' = Executed(who, r.result, FALSE)
    /\ UNCHANGED <<scope, ctx>>
    /\ UNCHANGED <<clientVars, insertVars, prefetchVars, connectVars>>

\* An execute attempt that queued in __aenter__ is handed the lock.
ExecLocked(name) ==
    /\ owner[name].lock # <<>>
    /\ owner[name].step = "idle"
    /\ Head(owner[name].lock).kind = "enter"
    /\ LET call == Head(owner[name].lock)
           r == locked_enter(owner[name])
       IN  /\ owner' = [owner EXCEPT ![name] = r.ow]
           /\ txlast' = Executed(call.scope, r.result, call.attempt = 2)
    /\ UNCHANGED <<scope, ctx>>
    /\ UNCHANGED <<clientVars, insertVars, prefetchVars, connectVars>>

\* The statement of the execute attempt holding the lock ends with `out`;
\* __aexit__ releases the lock. The call returns (its value, which alone
\* tells the three primitives apart, is shown as "rows"), raises, or (a
\* caught failure of the first attempt) goes for the lock again.
ExecuteDone(name, out) ==
    /\ owner[name].step = "execute"
    /\ LET call == Head(owner[name].lock)
           released == [owner[name] EXCEPT !.lock = Tail(@), !.step = "idle"]
           r == IF out = "ok"
                THEN [ ow |-> released, result |-> "rows" ]
                ELSE IF call.attempt = 1 /\ out \in RetryCaught
                THEN retry(released, call.scope, call.conn)
                ELSE [ ow |-> released, result |-> out ]
       IN  /\ out \in TxOutcomes(name, call.conn)
           /\ owner' = [owner EXCEPT ![name] = r.ow]
           /\ txlast' = Executed(call.scope, r.result, TRUE)
    /\ UNCHANGED <<scope, ctx>>
    /\ UNCHANGED <<clientVars, insertVars, prefetchVars, connectVars>>

\* An execute call that queued on line 40 of retry_connection is handed
\* the lock.
RetryLocked(name) ==
    /\ owner[name].lock # <<>>
    /\ owner[name].step = "idle"
    /\ Head(owner[name].lock).kind = "retry"
    /\ LET who == Head(owner[name].lock).scope
           r == locked_retry(owner[name], HandleOf(name, who))
       IN  /\ owner' = [owner EXCEPT ![name] = r.ow]
           /\ txlast' = Executed(who, r.result, TRUE)
    /\ UNCHANGED <<scope, ctx>>
    /\ UNCHANGED <<clientVars, insertVars, prefetchVars, connectVars>>

\* aiomysql.connect of the owner's reconnection ends with `out`; the lock
\* is released and the function is entered again, capturing the handle the
\* owner holds by then.
OwnerReconnected(name, out) ==
    /\ owner[name].step = "connect"
    /\ out \in OwnerConnects
    /\ LET ow == reconnect(owner[name], out)
           r == enter(ow, LockCall(None, "enter", 2, ow.connection, None))
       IN  /\ owner' = [owner EXCEPT ![name] = r.ow]
           /\ txlast' = Executed(None, r.result, TRUE)
    /\ UNCHANGED <<scope, ctx>>
    /\ UNCHANGED <<clientVars, insertVars, prefetchVars, connectVars>>

\* A flow calls close() on the owning client.
OwnerClose(name) ==
    /\ TxCalls + PendingCalls < MaxTxCalls
    /\ owner' = [owner EXCEPT ![name] = close(@)]
    /\ txlast' = NoTxCall(TxCalls + 1)
    /\ UNCHANGED <<scope, ctx>>
    /\ UNCHANGED <<clientVars, insertVars, prefetchVars, connectVars>>

\* A flow calls close() on scope s, which inherits it: _close closes the
\* scope's handle and then fails on the scope's missing _template, so that
\* the caller receives AttributeError and _connection is not cleared; on a
\* scope over no handle _close does nothing and close() returns.
ScopeClose(s) ==
    /\ TxCalls + PendingCalls < MaxTxCalls
    /\ owner' = [owner EXCEPT ![scope[s].name] =
                    IF scope[s].conn # None
                    THEN scope_close(@, scope[s].conn) ELSE @]
    /\ txlast' = [NoTxCall(TxCalls + 1) EXCEPT
                    !.op = "close", !.scope = s,
                    !.result = IF scope[s].conn # None
                               THEN "AttributeError" ELSE "None"]
    /\ UNCHANGED <<scope, ctx>>
    /\ UNCHANGED <<clientVars, insertVars, prefetchVars, connectVars>>

\* MySQLClient._in_transaction called on the owning client (who = None) or
\* on scope who, which inherits it: a scope over the handle that object
\* holds, with the same name and lock.
InTransaction(name, who) ==
    /\ Len(scope) < MaxScopes
    /\ who # None => scope[who].name = name
    /\ scope' = Append(scope, NewScope(name, HandleOf(name, who)))
    /\ txlast' = NoTxCall(TxCalls)
    /\ UNCHANGED <<owner, ctx>>
    /\ UNCHANGED <<clientVars, insertVars, prefetchVars, connectVars>>

\* A start(), commit() or rollback() call on scope s that went as far as
\* r: a call that ended is recorded, one that awaits its statement is not
\* yet.
TxCall(s, op, r) ==
    /\ scope' = [scope EXCEPT ![s] = r.sc]
    /\ txlast' = IF r.result = "pending" THEN NoTxCall(TxCalls)
                 ELSE [ op |-> op, scope |-> s, result |-> r.result,
                        finalized |-> scope[s].finalized,
                        before |-> ctx[scope[s].name],
                        stmt |-> FALSE, calls |-> TxCalls + 1 ]
    /\ UNCHANGED <<owner, ctx>>

\* A flow calls start() on scope s.
Start(s) ==
    /\ TxCalls + PendingCalls < MaxTxCalls
    /\ UNCHANGED <<clientVars, insertVars, prefetchVars, connectVars>>
    /\ TxCall(s, "start", start(scope[s], ctx[scope[s].name]))

\* A flow calls commit() on scope s.
Commit(s) ==
    /\ TxCalls + PendingCalls < MaxTxCalls
    /\ UNCHANGED <<clientVars, insertVars, prefetchVars, connectVars>>
    /\ TxCall(s, "commit", commit(scope[s], ctx[scope[s].name]))

\* A flow calls rollback() on scope s.
Rollback(s) ==
    /\ TxCalls + PendingCalls < MaxTxCalls
    /\ UNCHANGED <<clientVars, insertVars, prefetchVars, connectVars>>
    /\ TxCall(s, "rollback", rollback(scope[s], ctx[scope[s].name]))

\* begin() of the start() call `call` on scope s ends with `out`: the call
\* returns, raises, or goes for the lock of its client, which it is given
\* at once when the lock is free.
StartDone(s, call, out) ==
    /\ BagIn(call, scope[s].starts)
    /\ UNCHANGED <<clientVars, insertVars, prefetchVars, connectVars>>
    /\ out \in TxOutcomes(scope[s].name, scope[s].conn)
    /\ LET name == scope[s].name
           r == start_done(s, scope[s], ctx[name], call, out)
       IN  IF r.result = "retry"
           THEN /\ IF owner[name].lock = <<>>
                   THEN /\ owner' = [owner EXCEPT ![name] =
                                        scope_close(@, scope[s].conn)]
                        /\ scope' = [scope EXCEPT ![s] =
                                                   retry_start(r.sc, call)]
                   ELSE /\ owner' = [owner EXCEPT ![name].lock =
                               Append(@, LockCall(s, "start", 1, None,
                                                  call.before))]
                        /\ scope' = [scope EXCEPT ![s] = r.sc]
                /\ txlast' = NoTxCall(TxCalls)
                /\ UNCHANGED ctx
           ELSE /\ scope' = [scope EXCEPT ![s] = r.sc]
                /\ ctx' = [ctx EXCEPT ![name] = r.cur]
                /\ txlast' = [ op |-> "start", scope |-> s,
                               result |-> r.result,
                               finalized |-> scope[s].finalized,
                               before |-> call.before, stmt |-> TRUE,
                               calls |-> TxCalls + 1 ]
                /\ UNCHANGED owner

\* A start() call that queued for the lock of the client named name is
\* handed it.
StartLocked(name) ==
    /\ owner[name].lock # <<>>
    /\ owner[name].step = "idle"
    /\ Head(owner[name].lock).kind = "start"
    /\ LET call == Head(owner[name].lock)
       IN  /\ owner' = [owner EXCEPT ![name] =
                            [scope_close(@, scope[call.scope].conn)
                                EXCEPT !.lock = Tail(@)]]
           /\ scope' = [scope EXCEPT ![call.scope] = retry_start(@, call)]
    /\ txlast' = NoTxCall(TxCalls)
    /\ UNCHANGED ctx
    /\ UNCHANGED <<clientVars, insertVars, prefetchVars, connectVars>>

\* The commit or rollback statement of scope s ends with `out` and the
\* call returns or raises.
FinalizeDone(s, out) ==
    /\ scope[s].pending # "none"
    /\ UNCHANGED <<clientVars, insertVars, prefetchVars, connectVars>>
    /\ out \in TxOutcomes(scope[s].name, scope[s].conn)
    /\ LET name == scope[s].name
           r == finalize_done(scope[s], ctx[name], out)
       IN  /\ scope' = [scope EXCEPT ![s] = r.sc]
           /\ ctx' = [ctx EXCEPT ![name] = r.cur]
           /\ txlast' = [ op |-> scope[s].pending, scope |-> s,
                          result |-> r.result, finalized |-> FALSE,
                          before |-> scope[s].before, stmt |-> TRUE,
                          calls |-> TxCalls + 1 ]
           /\ UNCHANGED owner

InitTxn ==
    /\ owner = [n \in ConnNames |-> NewOwner]
    /\ scope = <<>>
    /\ ctx = [n \in ConnNames |-> None]
    /\ txlast = NoTxCall(0)

TxOuts == TxFailures \cup {"ok", "AttributeError", "pymysql.err.InterfaceError"}

\* The start() calls there can be: the context value at the call, first or
\* retried attempt.
StartCalls == [before : {None} \cup (1..MaxScopes), attempt : {1, 2}]

NextTxn ==
    \/ \E name \in ConnNames, out \in OwnerConnects : TxConnect(name, out)
    \/ \E name \in ConnNames, who \in {None} \cup (1..Len(scope)) :
          InTransaction(name, who)
    \/ \E s \in 1..Len(scope) : ScopeClose(s)
    \/ \E name \in ConnNames, who \in {None} \cup (1..Len(scope)) :
          Execute(name, who)
    \/ \E name \in ConnNames : ExecLocked(name)
    \/ \E name \in ConnNames, out \in TxOuts : ExecuteDone(name, out)
    \/ \E name \in ConnNames : RetryLocked(name)
    \/ \E name \in ConnNames, out \in OwnerConnects : OwnerReconnected(name, out)
    \/ \E name \in ConnNames : OwnerClose(name)
    \/ \E s \in 1..Len(scope) : Start(s)
    \/ \E s \in 1..Len(scope), call \in StartCalls, out \in TxOuts :
          StartDone(s, call, out)
    \/ \E name \in ConnNames : StartLocked(name)
    \/ \E s \in 1..Len(scope) : Commit(s)
    \/ \E s \in 1..Len(scope) : Rollback(s)
    \/ \E s \in 1..Len(scope), out \in TxOuts : FinalizeDone(s, out)

(***************************************************************************)
(* Insert-plan cache (src/tortoise/backends/base/executor.py, 9, 39-79)    *)
(***************************************************************************)

\* Names are character sequences, so that "{}:{}".format is a
\* concatenation.
InsertConns == { <<"a">>, <<"a", ":", "b">> }

InsertTables == { <<"t">>, <<"b", ":", "t">> }

\* model._meta of the model stored in `table`: fields_db_projection in
\* declaration order, with fields_map[field].generated.
Meta(table) ==
    IF table = <<"t">>
    THEN << [field |-> "id", column |-> "id", generated |-> TRUE],
            [field |-> "name", column |-> "name", generated |-> FALSE],
            [field |-> "created", column |-> "created_at", generated |-> FALSE] >>
    ELSE << [field |-> "id", column |-> "id", generated |-> TRUE],
            [field |-> "token", column |-> "token", generated |-> FALSE] >>

\* The executor class of a connection: MySQLExecutor binds "%s",
\* SqliteExecutor "?".
Placeholder(conn) == IF conn = <<"a">> THEN "%s" ELSE "?"

RECURSIVE RegularColumns(_)
\* _prepare_insert_columns: the fields that are not generated, in order.
RegularColumns(meta) ==
    IF meta = <<>> THEN <<>>
    ELSE IF Head(meta).generated THEN RegularColumns(Tail(meta))
    ELSE <<Head(meta)>> \o RegularColumns(Tail(meta))

_prepare_insert_columns(table) ==
    LET regular == RegularColumns(Meta(table))
    IN  [ regular_columns |-> [i \in 1..Len(regular) |-> regular[i].field],
          columns |-> [i \in 1..Len(regular) |-> regular[i].column] ]

\* _prepare_insert_statement of MySQLExecutor / SqliteExecutor: the
\* rendered INSERT, as its tokens.
_prepare_insert_statement(conn, table, columns) ==
    << "INSERT INTO", table, columns, "VALUES",
       [i \in 1..Len(columns) |-> Placeholder(conn)] >>

\* "{}:{}".format(self.db.connection_name, self.model._meta.table)
CacheKey(conn, table) == conn \o <<":">> \o table

\* Plausible slip: the plan is built and stored on every insert.
execute_insert_rebuild(cache, conn, table) ==
    LET key == CacheKey(conn, table)
        cols == _prepare_insert_columns(table)
        plan == << cols.regular_columns, cols.columns,
                   _prepare_insert_statement(conn, table, cols.columns) >>
    IN  [ cache |-> [k \in DOMAIN cache \cup {key} |->
                        IF k = key THEN plan ELSE cache[k]],
          plan |-> plan, built |-> TRUE ]

\* BaseExecutor.execute_insert up to its await: the plan is taken from
\* INSERT_CACHE, or built and stored when the key is not there.
execute_insert(cache, conn, table) ==
    LET key == CacheKey(conn, table)
        cols == _prepare_insert_columns(table)
        plan == << cols.regular_columns, cols.columns,
                   _prepare_insert_statement(conn, table, cols.columns) >>
    IN  IF key \notin DOMAIN cache
        THEN [ cache |-> [k \in DOMAIN cache \cup {key} |->
                             IF k = key THEN plan ELSE cache[k]],
               plan |-> plan, built |-> TRUE ]
        ELSE [ cache |-> cache, plan |-> cache[key], built |-> FALSE ]

CacheKeys == { CacheKey(conn, table) : conn \in InsertConns, table \in InsertTables }

\* _prepare_insert_values of the executor of the model stored in `table`:
\* fields_map[column] of each regular column is looked up in turn; a
\* column the model does not have is a KeyError. Gives the attributes
\* whose values are bound, or the error.
_prepare_insert_values(table, regular_columns) ==
    LET fields == { Meta(table)[i].field : i \in 1..Len(Meta(table)) }
        missing == { i \in 1..Len(regular_columns) :
                        regular_columns[i] \notin fields }
    IN  IF missing = {}
        THEN [ values |-> regular_columns, error |-> <<>> ]
        ELSE [ values |-> <<>>,
               error |-> << "KeyError",
                            regular_columns[CHOOSE i \in missing :
                                               \A j \in missing : i <= j] >> ]

\* How the awaited db.execute_insert can end: the generated key; one of
\* the two errors translate_exceptions raises; a failure of the retried
\* attempt that translate_exceptions does not catch (retry_connection
\* catches these two classes on the first attempt only); or the
\* AttributeError of a client that has no connection.
InsertOutcomes ==
    { "ok", "IntegrityError", "OperationalError",
      "pymysql.err.InterfaceError", "RuntimeError", "AttributeError" }

\* A task calls execute_insert(instance) on the executor of (conn, table):
\* the plan is settled and the values are prepared, which ends the call
\* when it fails; then db.execute_insert(query, values) is awaited.
ExecuteInsert(conn, table) ==
    /\ inserts.calls < MaxInserts
    /\ LET r == execute_insert(INSERT_CACHE, conn, table)
           key == CacheKey(conn, table)
           v == _prepare_insert_values(table, r.plan[1])
       IN  /\ INSERT_CACHE' = r.cache
           /\ inserts' = [inserts EXCEPT
                 !.calls = @ + 1,
                 !.builds[key] = IF r.built THEN @ + 1 ELSE @,
                 !.first[key] = IF r.built /\ inserts.builds[key] = 0
                                THEN r.plan ELSE @,
                 !.used[key] = @ + 1,
                 !.failed = IF v.error # <<>> THEN @ + 1 ELSE @,
                 !.error = v.error,
                 !.inflight = IF v.error # <<>> THEN @
                              ELSE @ \cup {[call |-> inserts.calls + 1,
                                            key |-> key, query |-> r.plan[3],
                                            values |-> v.values]}]
    /\ UNCHANGED <<clientVars, txnVars, prefetchVars, connectVars>>

\* db.execute_insert of one call ends: the generated key is assigned to
\* instance.id and the call returns, or the error leaves execute_insert.
InsertDone(c, out) ==
    /\ c \in inserts.inflight
    /\ out \in InsertOutcomes
    /\ inserts' = [inserts EXCEPT
          !.inflight = @ \ {c},
          !.returned = IF out = "ok" THEN @ + 1 ELSE @,
          !.failed = IF out = "ok" THEN @ ELSE @ + 1,
          !.error = IF out = "ok" THEN <<>> ELSE <<out>>]
    /\ UNCHANGED <<INSERT_CACHE, clientVars, txnVars, prefetchVars, connectVars>>

\* inserts: calls made, returned and failed, the error of the call that
\* ended in the latest step, per key the plans built, the plan stored first
\* and the calls that used the key, the calls awaiting the database.
InitInsert ==
    /\ INSERT_CACHE = <<>>
    /\ inserts = [ calls |-> 0, returned |-> 0, failed |-> 0, error |-> <<>>,
                   builds |-> [k \in CacheKeys |-> 0],
                   first |-> [k \in CacheKeys |-> <<>>],
                   used |-> [k \in CacheKeys |-> 0],
                   inflight |-> {} ]

NextInsert ==
    \/ \E conn \in InsertConns, table \in InsertTables : ExecuteInsert(conn, table)
    \/ \E c \in inserts.inflight, out \in InsertOutcomes : InsertDone(c, out)

(***************************************************************************)
(* Relation prefetch (src/tortoise/backends/base/executor.py, 100-253)     *)
(***************************************************************************)

\* Names and relation paths are character sequences: "m__n" is
\* <<"m", "_", "_", "n">>.
SEP == <<"_", "_">>

IsSepAt(s, i) == i + 1 <= Len(s) /\ s[i] = "_" /\ s[i + 1] = "_"

RECURSIVE Split(_)
\* str.split("__"): cut at each occurrence of the separator, scanning from
\* the left.
Split(s) ==
    IF \E i \in 1..Len(s) : IsSepAt(s, i)
    THEN LET i == CHOOSE k \in 1..Len(s) :
                     IsSepAt(s, k) /\ \A j \in 1..(k - 1) : ~IsSepAt(s, j)
         IN  <<SubSeq(s, 1, i - 1)>> \o Split(SubSeq(s, i + 2, Len(s)))
    ELSE <<s>>

RECURSIVE Join(_)
\* "__".join(parts)
Join(parts) ==
    IF parts = <<>> THEN <<>>
    ELSE IF Len(parts) = 1 THEN parts[1]
    ELSE parts[1] \o SEP \o Join(Tail(parts))

\* The models: A holds a foreign key to B (d), B holds one back to A (r),
\* a through table links A and B (m); C holds a foreign key to B (n).
\* model._meta.fetch_fields:
FetchFields(model) ==
    CASE model = "A" -> { <<"d">>, <<"r">>, <<"m">> }
      [] model = "B" -> { <<"n">> }
      [] OTHER -> {}

\* model._meta.table
TableOf(model) ==
    CASE model = "A" -> <<"t", "a">>
      [] model = "B" -> <<"t", "b">>
      [] OTHER -> <<"t", "c">>

\* getattr(self.model, field) / fields_map[field]: the variant of the
\* relation and the related model (related_model_field.type).
Relation(model, field) ==
    CASE model = "A" /\ field = <<"d">> -> [kind |-> "direct", type |-> "B"]
      [] model = "A" /\ field = <<"r">> -> [kind |-> "reverse", type |-> "B"]
      [] model = "A" /\ field = <<"m">> -> [kind |-> "m2m", type |-> "B"]
      [] OTHER -> [kind |-> "reverse", type |-> "C"]

\* The rows of a model's table; a row is [id, fk], fk being the row's
\* foreign key (A.d_id, B.a_id, C.b_id), None when null.
Rows(w, model) ==
    CASE model = "B" -> w.b
      [] model = "C" -> w.c
      [] OTHER -> <<>>

IdSet(instance_list) == { instance_list[i].id : i \in 1..Len(instance_list) }

EmptyMap == [f \in {} |-> {}]

\* related_model.all().using_db(self.db): a query on the related model
\* with nothing to prefetch.
AllQuery(model) == [model |-> model, prefetch_map |-> EmptyMap]

\* QuerySet.prefetch_related(*forwarded): the query with its prefetch map
\* built from the forwarded paths.
prefetch_related(related_query, forwarded) ==
    [ model |-> related_query.model,
      prefetch_map |->
          [ f \in { Split(p)[1] : p \in forwarded } |->
              { Join(Tail(Split(p))) :
                  p \in { q \in forwarded : Split(q)[1] = f
                                            /\ Join(Tail(Split(q))) # <<>> } } ] ]

RECURSIVE SumOver(_, _)
SumOver(S, n) ==
    IF S = {} THEN 0
    ELSE LET x == CHOOSE y \in S : TRUE IN n[x] + SumOver(S \ {x}, n)

UnionOver(S, n) == UNION { n[x] : x \in S }

\* Plausible slip: an unknown relation is skipped instead of raised.
BuildPrefetchMap_skip(model, args, prefetch_map) ==
    LET valid == SelectSeq(args, LAMBDA p : Split(p)[1] \in FetchFields(model))
        firsts == { Split(valid[i])[1] : i \in 1..Len(valid) }
    IN  [ prefetch_map |->
              [ f \in firsts |->
                  { Join(Tail(Split(valid[i]))) :
                      i \in { k \in 1..Len(valid) :
                                 Split(valid[k])[1] = f
                                 /\ Join(Tail(Split(valid[k]))) # <<>> } } ],
          error |-> <<>> ]

RECURSIVE BuildPrefetchMap(_, _, _)
\* The loop of fetch_for_list over *args: the first segment is validated
\* against fetch_fields, the rest of the path is forwarded. Gives the map
\* and <<>>, or the map so far and the error raised.
BuildPrefetchMap(model, args, prefetch_map) ==
    IF args = <<>> THEN [prefetch_map |-> prefetch_map, error |-> <<>>]
    ELSE LET relation_split == Split(Head(args))
             first_level_field == relation_split[1]
             forwarded_prefetch == Join(Tail(relation_split))
             had == IF first_level_field \in DOMAIN prefetch_map
                    THEN prefetch_map[first_level_field] ELSE {}
             added == IF forwarded_prefetch # <<>>
                      THEN had \cup {forwarded_prefetch} ELSE had
         IN  IF first_level_field \notin FetchFields(model)
             THEN [ prefetch_map |-> prefetch_map,
                    error |-> << "OperationalError", first_level_field,
                                 TableOf(model) >> ]
             ELSE BuildPrefetchMap(model, Tail(args),
                      [ f \in DOMAIN prefetch_map \cup {first_level_field} |->
                          IF f = first_level_field THEN added
                          ELSE prefetch_map[f] ])

\* _make_prefetch_queries: every field of prefetch_map gets its related
\* query, the stored one if there is one, with the forwarded paths on it.
_make_prefetch_queries(model, prefetch_map, prefetch_queries) ==
    [ f \in DOMAIN prefetch_queries \cup DOMAIN prefetch_map |->
        IF f \in DOMAIN prefetch_map
        THEN LET related_query ==
                     IF f \in DOMAIN prefetch_queries THEN prefetch_queries[f]
                     ELSE AllQuery(Relation(model, f).type)
             IN  IF prefetch_map[f] # {}
                 THEN prefetch_related(related_query, prefetch_map[f])
                 ELSE related_query
        ELSE prefetch_queries[f] ]

RECURSIVE GroupByKey(_, _)
\* Plausible slip: a later entry replaces the list of its parent.
GroupByKey_replace(entries, related_object_map) ==
    IF entries = <<>> THEN related_object_map
    ELSE LET entry == Head(entries)
         IN  GroupByKey(Tail(entries),
                 [ k \in DOMAIN related_object_map \cup {entry.fk} |->
                     IF k = entry.fk THEN <<entry.id>>
                     ELSE related_object_map[k] ])

\* The grouping loop of _prefetch_reverse_relation: each entry is
\* appended to the list of the parent its relation field names.
GroupByKey(entries, related_object_map) ==
    IF entries = <<>> THEN related_object_map
    ELSE LET entry == Head(entries)
             object_id == entry.fk
         IN  GroupByKey(Tail(entries),
                 [ k \in DOMAIN related_object_map \cup {object_id} |->
                     IF k = object_id
                     THEN IF object_id \in DOMAIN related_object_map
                          THEN Append(related_object_map[object_id], entry.id)
                          ELSE <<entry.id>>
                     ELSE related_object_map[k] ])

RECURSIVE GroupRelations(_, _)
\* The loop of _prefetch_m2m_relation over the set `relations`, taken in
\* the order the set happens to be iterated in.
GroupRelations(order, relation_map) ==
    IF order = <<>> THEN relation_map
    ELSE LET object_id == Head(order)[1]
             related_object_id == Head(order)[2]
         IN  GroupRelations(Tail(order),
                 [ k \in DOMAIN relation_map \cup {object_id} |->
                     IF k = object_id
                     THEN IF object_id \in DOMAIN relation_map
                          THEN Append(relation_map[object_id], related_object_id)
                          ELSE <<related_object_id>>
                     ELSE relation_map[k] ])

\* dict.get(key, default)
Get(map, key, default) == IF key \in DOMAIN map THEN map[key] ELSE default

RECURSIVE JoinThrough(_, _, _)
\* The rows the many-to-many query returns: the through rows whose
\* backward key is in the id set, joined to the related row of their
\* forward key.
JoinThrough(through, related_rows, ids) ==
    IF through = <<>> THEN <<>>
    ELSE LET bk == Head(through)[1]
             fwd == Head(through)[2]
             hits == SelectSeq(related_rows, LAMBDA row : row.id = fwd)
             rest == JoinThrough(Tail(through), related_rows, ids)
         IN  IF bk \in ids
             THEN [ i \in 1..Len(hits) |->
                      [ _backward_relation_key |-> bk, id |-> hits[i].id,
                        fk |-> hits[i].fk ] ] \o rest
             ELSE rest

\* (e["_backward_relation_key"], e["id"]) for e in raw_results
RelationsOf(raw_results) ==
    { << raw_results[i]._backward_relation_key, raw_results[i].id >> :
        i \in 1..Len(raw_results) }

RECURSIVE Orderings(_)
\* The orders a finite set can be iterated in.
Orderings(S) ==
    IF S = {} THEN {<<>>}
    ELSE UNION { { <<x>> \o o : o \in Orderings(S \ {x}) } : x \in S }

\* The keys of _prefetch_queries after _make_prefetch_queries, in
\* insertion order: a field of prefetch_map that has no related query yet
\* is added at the end, a field that has one keeps its place.
_make_prefetch_order(map_keys, order) ==
    order \o SelectSeq(map_keys,
                       LAMBDA f : \A i \in 1..Len(order) : order[i] # f)

\* _execute_prefetch_queries when there is nothing to prefetch: the
\* executor's dictionary is left alone. `issued` lists the statements
\* issued, each by the chain of relations it fetches, in the order of
\* their issue.
NoPrefetch(ex) ==
    [ prefetch_queries |-> ex.prefetch_queries, order |-> ex.order,
      queries |-> 0, ran |-> {}, issued |-> <<>>, attached |-> EmptyMap ]

\* BaseExecutor(model, db, prefetch_map): the executor a related query or
\* a many-to-many prefetch makes for itself. map_keys and order are the
\* insertion orders of the two dictionaries.
BaseExecutor(prefetch_map) ==
    [ prefetch_map |-> prefetch_map,
      map_keys |-> CHOOSE o \in Orderings(DOMAIN prefetch_map) : TRUE,
      prefetch_queries |-> EmptyMap, order |-> <<>> ]

RECURSIVE _execute_prefetch_queries(_, _, _, _, _, _)
RECURSIVE fetch_for_list(_, _, _, _, _, _, _)
RECURSIVE _do_prefetch(_, _, _, _, _, _)
RECURSIVE DoPrefetches(_, _, _, _, _, _)

\* The statement of the query of chain `path`, followed by what the
\* prefetches on its rows did.
WithStatement(path, nested) ==
    [ queries |-> 1 + nested.queries, ran |-> nested.ran,
      issued |-> <<path>> \o nested.issued ]

\* Awaiting a related query (QuerySet -> execute_select): one statement,
\* then the relations the query carries are prefetched on its rows by an
\* executor of its own.
AwaitQuery(w, related_query, rows, path) ==
    WithStatement(path,
                  _execute_prefetch_queries(w, related_query.model,
                      BaseExecutor(related_query.prefetch_map),
                      rows, <<>>, path))

\* What a prefetch of one relation did: the statements issued, the chains
\* of relations prefetched below it, and per instance what was attached.
Prefetched(fetch, attached) ==
    [ queries |-> fetch.queries, ran |-> fetch.ran, issued |-> fetch.issued,
      attached |-> attached ]

\* _prefetch_reverse_relation
_prefetch_reverse_relation(w, related_query, instance_list, path) ==
    LET instance_id_set == IdSet(instance_list)
        related_object_list ==
            SelectSeq(Rows(w, related_query.model),
                      LAMBDA row : row.fk \in instance_id_set)
        related_object_map == GroupByKey(related_object_list, EmptyMap)
    IN  Prefetched(AwaitQuery(w, related_query, related_object_list, path),
                   [ i \in 1..Len(instance_list) |->
                       Get(related_object_map, instance_list[i].id, <<>>) ])

\* _prefetch_m2m_relation; `order` is the order the set `relations` is
\* iterated in.
_prefetch_m2m_relation(w, related_query, instance_list, order, path) ==
    LET instance_id_set == IdSet(instance_list)
        raw_results == JoinThrough(w.through, Rows(w, related_query.model),
                                   instance_id_set)
        related_object_list ==
            [ i \in 1..Len(raw_results) |->
                [id |-> raw_results[i].id, fk |-> raw_results[i].fk] ]
        relation_map == GroupRelations(order, EmptyMap)
    IN  Prefetched(
            WithStatement(path,
                          fetch_for_list(w, related_query.model,
                              BaseExecutor(related_query.prefetch_map),
                              related_object_list, <<>>, <<>>, path)),
            [ i \in 1..Len(instance_list) |->
                Get(relation_map, instance_list[i].id, <<>>) ])

\* Plausible slip: the fetch is issued although no foreign key is set.
_prefetch_direct_relation_always(w, related_query, instance_list, path) ==
    LET keys == { instance_list[i].fk : i \in 1..Len(instance_list) } \ {None}
        related_object_list ==
            SelectSeq(Rows(w, related_query.model), LAMBDA row : row.id \in keys)
    IN  Prefetched(AwaitQuery(w, related_query, related_object_list, path),
                   [ i \in 1..Len(instance_list) |->
                       [ set |-> TRUE,
                         value |-> IF instance_list[i].fk
                                      \in IdSet(related_object_list)
                                   THEN instance_list[i].fk ELSE None ] ])

\* _prefetch_direct_relation: nothing is fetched, and nothing set, when no
\* instance has a foreign key.
_prefetch_direct_relation(w, related_query, instance_list, path) ==
    LET related_objects_for_fetch ==
            { instance_list[i].fk : i \in 1..Len(instance_list) } \ {None}
        related_object_list ==
            SelectSeq(Rows(w, related_query.model),
                      LAMBDA row : row.id \in related_objects_for_fetch)
    IN  IF related_objects_for_fetch # {}
        THEN Prefetched(AwaitQuery(w, related_query, related_object_list, path),
                        [ i \in 1..Len(instance_list) |->
                            [ set |-> TRUE,
                              value |-> IF instance_list[i].fk
                                           \in IdSet(related_object_list)
                                        THEN instance_list[i].fk
                                        ELSE None ] ])
        ELSE [ queries |-> 0, ran |-> {}, issued |-> <<>>,
               attached |-> [ i \in 1..Len(instance_list) |->
                                [set |-> FALSE, value |-> None] ] ]

\* _do_prefetch for the field that ends `path`: dispatch on the variant of
\* the relation. The result is that of the whole coroutine: its own
\* statement and the statements of the executors it makes.
_do_prefetch(w, model, path, related_query, instance_list, order) ==
    LET kind == Relation(model, path[Len(path)]).kind
    IN  CASE kind = "reverse" ->
               _prefetch_reverse_relation(w, related_query, instance_list, path)
          [] kind = "m2m" ->
               _prefetch_m2m_relation(w, related_query, instance_list, order, path)
          [] OTHER ->
               _prefetch_direct_relation(w, related_query, instance_list, path)

RECURSIVE ConcatOver(_, _)
\* The statements issued for the fields of `order`, one field after the
\* other.
ConcatOver(order, done) ==
    IF order = <<>> THEN <<>>
    ELSE done[Head(order)].issued \o ConcatOver(Tail(order), done)

\* What the loop of _execute_prefetch_queries did, from what _do_prefetch
\* did for each field. `made` is the dictionary of related queries and the
\* insertion order of its keys.
Collected(made, path, done) ==
    [ prefetch_queries |-> made.prefetch_queries, order |-> made.order,
      issued |-> ConcatOver(made.order, done),
      queries |-> SumOver(DOMAIN done, [f \in DOMAIN done |-> done[f].queries]),
      ran |-> { Append(path, f) : f \in DOMAIN done }
              \cup UnionOver(DOMAIN done, [f \in DOMAIN done |-> done[f].ran]),
      attached |-> [f \in DOMAIN done |-> done[f].attached] ]

\* The loop of _execute_prefetch_queries over the related queries made.
DoPrefetches(w, model, made, instance_list, order, path) ==
    Collected(made, path,
              [ f \in DOMAIN made.prefetch_queries |->
                  _do_prefetch(w, model, Append(path, f),
                               made.prefetch_queries[f], instance_list,
                               order) ])

\* _execute_prefetch_queries of an executor no other coroutine can reach
\* (one made by a related query or by a many-to-many prefetch), run to its
\* end: the related queries are made and each is prefetched. `path` is the
\* chain of relations above this executor; `ran` collects the chains
\* prefetched.
_execute_prefetch_queries(w, model, ex, instance_list, order, path) ==
    IF instance_list # <<>>
       /\ (DOMAIN ex.prefetch_map # {} \/ DOMAIN ex.prefetch_queries # {})
    THEN DoPrefetches(w, model,
                      [ prefetch_queries |->
                            _make_prefetch_queries(model, ex.prefetch_map,
                                                   ex.prefetch_queries),
                        order |-> _make_prefetch_order(ex.map_keys, ex.order) ],
                      instance_list, order, path)
    ELSE NoPrefetch(ex)

RECURSIVE InsertionOrder(_, _, _)
\* The keys of prefetch_map in the order the loop of fetch_for_list
\* inserted them: each first segment where it first occurs.
InsertionOrder(keys, args, prefetch_map) ==
    IF args = <<>> THEN keys
    ELSE LET first_level_field == Split(Head(args))[1]
         IN  InsertionOrder(
                 IF first_level_field \in DOMAIN prefetch_map
                    /\ \A i \in 1..Len(keys) : keys[i] # first_level_field
                 THEN Append(keys, first_level_field) ELSE keys,
                 Tail(args), prefetch_map)

\* The executor with the map the loop of fetch_for_list built, and the
\* error the loop raised.
Mapped(ex, keys, args, built) ==
    [ ex |-> [ex EXCEPT !.prefetch_map = built.prefetch_map,
                        !.map_keys = InsertionOrder(keys, args,
                                                    built.prefetch_map)],
      error |-> built.error ]

\* Plausible slip: the map of the earlier call is not emptied.
fetch_for_list_map_keep(model, ex, args) ==
    Mapped(ex, ex.map_keys, args,
           BuildPrefetchMap(model, args, ex.prefetch_map))

\* fetch_for_list up to its await (lines 239-251): prefetch_map is emptied
\* and rebuilt from args; an invalid path raises and leaves the map as far
\* as it was built.
fetch_for_list_map(model, ex, args) ==
    Mapped(ex, <<>>, args, BuildPrefetchMap(model, args, EmptyMap))

\* The executor and the result of a fetch_for_list that ran to its end.
Fetched(ex, done) ==
    [ ex |-> [ex EXCEPT !.prefetch_queries = done.prefetch_queries,
                        !.order = done.order],
      error |-> <<>>, queries |-> done.queries, ran |-> done.ran,
      issued |-> done.issued, attached |-> done.attached ]

\* fetch_for_list from its await on, on an executor no other coroutine
\* can reach.
AfterMap(w, model, mapped, instance_list, order, path) ==
    IF mapped.error # <<>>
    THEN [ ex |-> mapped.ex, error |-> mapped.error, queries |-> 0,
           ran |-> {}, issued |-> <<>>, attached |-> EmptyMap ]
    ELSE Fetched(mapped.ex,
                 _execute_prefetch_queries(w, model, mapped.ex, instance_list,
                                           order, path))

\* fetch_for_list(instance_list, *args) on an executor no other coroutine
\* can reach, run to its end.
fetch_for_list(w, model, ex, instance_list, args, order, path) ==
    AfterMap(w, model, fetch_for_list_map(model, ex, args), instance_list,
             order, path)

\* The calls in flight on the executor of model A are told apart by the
\* slot they occupy; a call that begins takes k1 when k1 is free.
Callers == {"k1", "k2"}

\* What a call awaiting a statement holds: the iterator over
\* _prefetch_queries.items() (the size of the dictionary when the loop
\* began and the entries taken), the field and related query it is
\* prefetching, the statements the executors below it have still to get
\* answered (the one in flight first), and what it has done so far.
IdleCall ==
    [ pc |-> "idle", op |-> "none", args |-> <<>>, fresh |-> TRUE,
      used |-> 0, pos |-> 0, field |-> <<>>, related_query |-> AllQuery("none"),
      nested |-> <<>>, queries |-> 0, ran |-> {}, attached |-> EmptyMap ]

\* No call began or ended in the step.
NoFetch ==
    [ op |-> "none", args |-> <<>>, began |-> FALSE, ended |-> FALSE,
      fresh |-> TRUE, error |-> <<>>, queries |-> 0, ran |-> {},
      attached |-> EmptyMap ]

Put(map, key, value) ==
    [ k \in DOMAIN map \cup {key} |-> IF k = key THEN value ELSE map[k] ]

\* The outcomes of a statement the executor awaits: the rows; one of the
\* two errors translate_exceptions raises; a failure of the retried
\* attempt that translate_exceptions does not catch; or the AttributeError
\* of a client that has no connection.
PrefetchOutcomes ==
    { "ok", "OperationalError", "IntegrityError",
      "pymysql.err.InterfaceError", "RuntimeError", "AttributeError" }

\* The call with what _do_prefetch did for `field` attached, every
\* statement of it having been counted when it was issued.
Attached(call, field, done) ==
    [call EXCEPT !.pc = "idle", !.nested = <<>>,
                 !.ran = @ \cup {<<field>>} \cup done.ran,
                 !.attached = Put(@, field, done.attached)]

\* The call awaiting the first of the statements `rest` of the executors
\* below it.
Nesting(call, rest) ==
    [call EXCEPT !.pc = "nested", !.nested = rest, !.queries = @ + 1,
                 !.ran = @ \cup {Head(rest)}]

\* The call awaiting the statement of `field`.
Awaiting(call, field, related_query) ==
    [call EXCEPT !.pc = "prefetch", !.field = field,
                 !.related_query = related_query, !.queries = @ + 1,
                 !.ran = @ \cup {<<field>>}]

RECURSIVE PrefetchLoop(_, _, _)
RECURSIVE PrefetchNext(_, _, _, _, _)

\* _do_prefetch of the entry the iterator gave: a direct relation of
\* instances without foreign key awaits nothing and the loop goes on; any
\* other issues its statement and awaits it.
PrefetchNext(w, ex, call, field, whole) ==
    IF whole.queries = 0
    THEN PrefetchLoop(w, ex, Attached(call, field, whole))
    ELSE [ ex |-> ex,
           call |-> Awaiting(call, field, ex.prefetch_queries[field]),
           ended |-> FALSE, error |-> <<>> ]

\* The loop of _execute_prefetch_queries (lines 234-235) from the
\* iterator's position to the next statement it awaits, or to its end. The
\* iterator raises when the dictionary has changed size since the loop
\* began.
PrefetchLoop(w, ex, call) ==
    IF Len(ex.order) # call.used
    THEN [ ex |-> ex, call |-> call, ended |-> TRUE,
           error |-> <<"RuntimeError", "dictionary changed size during iteration">> ]
    ELSE IF call.pos = call.used
    THEN [ex |-> ex, call |-> call, ended |-> TRUE, error |-> <<>>]
    ELSE PrefetchNext(w, ex, [call EXCEPT !.pos = @ + 1],
                      ex.order[call.pos + 1],
                      _do_prefetch(w, "A", <<ex.order[call.pos + 1]>>,
                                   ex.prefetch_queries[ex.order[call.pos + 1]],
                                   w.instance_list, <<>>))

\* The loop begins on the related queries made: the iterator is created.
LoopOver(w, made, call) ==
    PrefetchLoop(w, made, [call EXCEPT !.used = Len(made.order)])

\* _execute_prefetch_queries(instance_list) on the executor of model A, to
\* its first await or to its end.
PrefetchBegin(w, ex, call) ==
    IF w.instance_list # <<>>
       /\ (DOMAIN ex.prefetch_map # {} \/ DOMAIN ex.prefetch_queries # {})
    THEN LoopOver(w, [ex EXCEPT
                        !.prefetch_queries =
                            _make_prefetch_queries("A", ex.prefetch_map,
                                                   ex.prefetch_queries),
                        !.order = _make_prefetch_order(ex.map_keys, ex.order)],
                  call)
    ELSE [ex |-> ex, call |-> call, ended |-> TRUE, error |-> <<>>]

\* Slot k is the one a beginning call takes.
Free(k) ==
    /\ fetching[k].pc = "idle"
    /\ k = "k1" \/ fetching["k1"].pc # "idle"

\* What is seen of call c in a step it began or ended in.
Report(c, began, ended, error) ==
    [ op |-> c.op, args |-> c.args, began |-> began, ended |-> ended,
      fresh |-> c.fresh, error |-> error, queries |-> c.queries,
      ran |-> c.ran, attached |-> c.attached ]

\* The set `relations` a many-to-many prefetch of the held instances
\* builds.
HeldRelations ==
    RelationsOf(JoinThrough(world.through, world.b, IdSet(world.instance_list)))

\* The call of k goes on to state r: it awaits a statement, or it has ended.
Proceed(k, r, began) ==
    /\ executor' = r.ex
    /\ fetching' = [fetching EXCEPT ![k] = IF r.ended THEN IdleCall ELSE r.call]
    /\ fetched' = IF began \/ r.ended
                  THEN Report(r.call, began, r.ended, r.error)
                  ELSE NoFetch
    /\ begun' = (IF began THEN begun + 1 ELSE begun)
    /\ UNCHANGED <<world, clientVars, txnVars, insertVars, connectVars>>

\* fetch_for_list after its loop over the paths: it raises, or executes
\* the prefetch queries.
Validated(mapped, call) ==
    IF mapped.error # <<>>
    THEN [ ex |-> mapped.ex, call |-> call, ended |-> TRUE,
           error |-> mapped.error ]
    ELSE PrefetchBegin(world, mapped.ex, call)

\* executor.fetch_for_list(instance_list, *args) on the executor of model
\* A, to its first await: the map is rebuilt, the related queries made and
\* the first statement issued.
FetchForList(k, args) ==
    /\ Free(k)
    /\ begun < MaxFetches
    /\ \E r \in { Validated(fetch_for_list_map("A", executor, args),
                            [IdleCall EXCEPT
                               !.op = "fetch_for_list", !.args = args,
                               !.fresh = DOMAIN executor.prefetch_queries = {}]) } :
           Proceed(k, r, TRUE)

\* executor.execute_select(query) on the executor of model A, to its
\* first await: the statement of the query is issued.
ExecuteSelect(k) ==
    /\ Free(k)
    /\ begun < MaxFetches
    /\ begun' = begun + 1
    /\ fetching' = [fetching EXCEPT ![k] =
          [IdleCall EXCEPT !.pc = "select", !.op = "execute_select",
                           !.fresh = DOMAIN executor.prefetch_queries = {},
                           !.queries = 1]]
    /\ fetched' = NoFetch
    /\ UNCHANGED <<world, executor, clientVars, txnVars, insertVars, connectVars>>

\* The call of k ends with the error of the statement it awaited.
Raised(k, out) ==
    [ex |-> executor, call |-> fetching[k], ended |-> TRUE, error |-> <<out>>]

\* The statement of execute_select is answered: the call raises, or the
\* rows become the instances and the prefetch queries are executed on
\* them, to the first await.
SelectDone(k, out) ==
    /\ fetching[k].pc = "select"
    /\ out \in PrefetchOutcomes
    /\ \E r \in { IF out # "ok" THEN Raised(k, out)
                   ELSE PrefetchBegin(world, executor, fetching[k]) } :
           Proceed(k, r, FALSE)

\* A statement of the relation a call is prefetching has been answered,
\* `rest` being the statements the executors below have still to issue
\* and `whole` what _do_prefetch does in all: the next statement is issued
\* and awaited, or, none being left, the rows are attached to the
\* instances and the loop goes on to the next relation.
Answered(w, ex, call, rest, whole) ==
    IF rest # <<>>
    THEN [ ex |-> ex, call |-> Nesting(call, rest), ended |-> FALSE,
           error |-> <<>> ]
    ELSE PrefetchLoop(w, ex, Attached(call, call.field, whole))

\* The statement of the relation itself has been answered.
AnsweredFirst(w, ex, call, whole) ==
    Answered(w, ex, call, Tail(whole.issued), whole)

\* The orders the set `relations` of the prefetch of call k can be
\* iterated in when its last statement is answered with `out`.
RelationOrders(k, out) ==
    IF out = "ok" /\ Relation("A", fetching[k].field).kind = "m2m"
    THEN Orderings(HeldRelations) ELSE {<<>>}

\* The statement of the relation a call is prefetching is answered: the
\* call raises, or the related query's own executor prefetches the
\* relations the query carries on the rows, issuing its first statement,
\* or, there being none, the rows are attached and the loop goes on.
PrefetchDone(k, out) ==
    /\ fetching[k].pc = "prefetch"
    /\ out \in PrefetchOutcomes
    /\ \E order \in RelationOrders(k, out) :
         \E r \in { IF out # "ok" THEN Raised(k, out)
                    ELSE AnsweredFirst(world, executor, fetching[k],
                             _do_prefetch(world, "A", <<fetching[k].field>>,
                                          fetching[k].related_query,
                                          world.instance_list, order)) } :
             Proceed(k, r, FALSE)

\* A statement of an executor below the call's is answered: the call
\* raises, or the next such statement is issued, or, none being left, the
\* rows of the relation are attached and the loop goes on.
NestedDone(k, out) ==
    /\ fetching[k].pc = "nested"
    /\ out \in PrefetchOutcomes
    /\ \E order \in RelationOrders(k, out) :
         \E r \in { IF out # "ok" THEN Raised(k, out)
                    ELSE Answered(world, executor, fetching[k],
                             Tail(fetching[k].nested),
                             _do_prefetch(world, "A", <<fetching[k].field>>,
                                          fetching[k].related_query,
                                          world.instance_list, order)) } :
             Proceed(k, r, FALSE)

\* The argument lists callers pass: relation paths, alone and combined,
\* valid and not, with and without a nested part.
ArgLists ==
    { <<>>,
      << <<"d">> >>, << <<"r">> >>, << <<"m">> >>, << <<>> >>,
      << <<"m", "_", "_", "n">> >>, << <<"m", "_", "_">> >>,
      << <<"r">>, <<"m">> >>, << <<"m">>, <<"r">> >>,
      << <<"r", "_", "_", "n">>, <<"r">> >>,
      << <<"m", "_", "_", "n">>, <<"d">> >>,
      << <<"x">>, <<"r">> >>, << <<"r">>, <<"x">> >>,
      << <<"m">>, <<"x", "_", "_", "n">>, <<"d">> >> }

\* The source instances a caller can hold: [id, fk] with fk the foreign
\* key of relation d. Instance 2, which has related rows in the database,
\* is in no list.
Instances == { [id |-> 1, fk |-> 2], [id |-> 3, fk |-> None] }

RECURSIVE SeqsUpTo(_, _)
SeqsUpTo(S, n) ==
    IF n = 0 THEN {<<>>}
    ELSE LET shorter == SeqsUpTo(S, n - 1)
         IN  shorter \cup { Append(q, x) : q \in shorter, x \in S }

\* The lists a caller can hold: up to MaxLen instances, each at most once,
\* in the order of their ids (the order of the rows of a select).
InstanceLists ==
    { l \in SeqsUpTo(Instances, MaxLen) :
        \A i, j \in 1..Len(l) : i < j => l[i].id < l[j].id }

\* The contents of the database: rows of B, rows of C, and the through
\* table of relation m as <<backward key, forward key>> rows. Rows come
\* in no particular order and a link can be stored twice.
Databases ==
    { [ b |-> << [id |-> 3, fk |-> 2], [id |-> 1, fk |-> 1], [id |-> 2, fk |-> 1] >>,
        c |-> << [id |-> 1, fk |-> 1], [id |-> 7, fk |-> 3] >>,
        through |-> << <<2, 2>>, <<1, 1>>, <<1, 2>>, <<1, 2>> >> ] }

\* The executor of model A as constructed: both dictionaries empty.
NewExecutor == BaseExecutor(EmptyMap)

InitPrefetch ==
    /\ world \in { [ b |-> d.b, c |-> d.c, through |-> d.through,
                     instance_list |-> l ] :
                     d \in Databases, l \in InstanceLists }
    /\ executor = NewExecutor
    /\ fetching = [k \in Callers |-> IdleCall]
    /\ fetched = NoFetch
    /\ begun = 0

\* The prefetch engine at rest, for the specifications of the other
\* subsystems: an executor nobody has called, no instance held.
IdlePrefetch ==
    /\ world = [b |-> <<>>, c |-> <<>>, through |-> <<>>, instance_list |-> <<>>]
    /\ executor = NewExecutor
    /\ fetching = [k \in Callers |-> IdleCall]
    /\ fetched = NoFetch
    /\ begun = 0

NextPrefetch ==
    \/ \E k \in Callers, args \in ArgLists : FetchForList(k, args)
    \/ \E k \in Callers : ExecuteSelect(k)
    \/ \E k \in Callers, out \in PrefetchOutcomes : SelectDone(k, out)
    \/ \E k \in Callers, out \in PrefetchOutcomes : PrefetchDone(k, out)
    \/ \E k \in Callers, out \in PrefetchOutcomes : NestedDone(k, out)

(***************************************************************************)
(* Connection parameters (src/tortoise/backends/mysql/client.py, 81-122)   *)
(***************************************************************************)

ClientIds == {1, 2}

\* Keys the constructor removes from the extra options.
Reserved == {"connection_name", "fetch_inserted", "db", "autocommit"}

DigitValue(ch) ==
    CASE ch = "0" -> 0 [] ch = "1" -> 1 [] ch = "2" -> 2 [] ch = "3" -> 3
      [] ch = "4" -> 4 [] ch = "5" -> 5 [] ch = "6" -> 6 [] ch = "7" -> 7
      [] ch = "8" -> 8 [] OTHER -> 9

RECURSIVE ParseDigits(_, _)
ParseDigits(text, acc) ==
    IF text = <<>> THEN acc
    ELSE ParseDigits(Tail(text), 10 * acc + DigitValue(Head(text)))

\* int(port): a port is given as an integer or as decimal text.
int(port) == IF port.kind = "int" THEN port.num ELSE ParseDigits(port.text, 0)

\* MySQLClient.__init__: kwargs is the sequence of <<key, value>> options
\* given besides the named parameters. template is _template (<<>> the
\* empty dictionary) and connected says that _connection holds a handle;
\* wrote tells what wrote _template last. raised is the error of the
\* create_connection that ended last, with_db its argument and formatted
\* what had written the _template it formatted.
MySQLClient(user, password, database, host, port, kwargs) ==
    [ user |-> user, password |-> password, database |-> database,
      host |-> host, port |-> int(port),
      extra |-> SelectSeq(kwargs, LAMBDA kv : kv[1] \notin Reserved),
      template |-> <<>>, connected |-> FALSE, wrote |-> "__init__",
      with_db |-> FALSE, formatted |-> "none", raised |-> <<>> ]

\* The _template that create_connection builds (db: <<>> stands for None);
\* the password is not part of it. A one-element sequence, <<>> being the
\* empty template of a new client.
ConnectTemplate(cl, with_db) ==
    << [ host |-> cl.host, port |-> cl.port, user |-> cl.user,
         db |-> IF with_db THEN <<cl.database>> ELSE <<>>,
         autocommit |-> TRUE, extra |-> cl.extra ] >>

\* DBConnectionError("Can't connect to MySQL server: {template}")
ConnectError(template) ==
    << "DBConnectionError", "Can't connect to MySQL server: ", template >>

\* create_connection(with_db) of client object cl up to its await (lines
\* 106-115): _template is replaced.
write_template(cl, with_db) ==
    [cl EXCEPT !.template = ConnectTemplate(cl, with_db),
               !.wrote = IF with_db THEN "create_connection(True)"
                         ELSE "create_connection(False)"]

\* create_connection(with_db) of client object cl from its await on (lines
\* 115-122), aiomysql.connect ending with `out`: the handle is installed,
\* or the error is raised with _template as it is by then.
connect(cl, with_db, out) ==
    IF out = "ok"
    THEN [cl EXCEPT !.connected = TRUE, !.with_db = with_db,
                    !.formatted = "none", !.raised = <<>>]
    ELSE [cl EXCEPT !.with_db = with_db, !.formatted = cl.wrote,
                    !.raised = ConnectError(cl.template)]

\* close() of client object cl (lines 124-132): _close empties _template
\* when there is a handle to close.
close_object(cl) ==
    IF cl.connected
    THEN [cl EXCEPT !.template = <<>>, !.wrote = "_close", !.connected = FALSE]
    ELSE cl

\* A caller calls create_connection(with_db) on client object c: the call
\* runs to its await.
CreateConnection(c, with_db) ==
    /\ connecting.begun < MaxConnects
    /\ clients' = [clients EXCEPT ![c] = write_template(@, with_db)]
    /\ connecting' = [ begun |-> connecting.begun + 1,
                       awaiting |-> connecting.awaiting \cup
                           { [ id |-> connecting.begun + 1, client |-> c,
                               with_db |-> with_db ] } ]
    /\ UNCHANGED <<clientVars, txnVars, insertVars, prefetchVars>>

\* aiomysql.connect answers call `call`, which then ends.
ConnectionDone(call, out) ==
    /\ call \in connecting.awaiting
    /\ out \in OwnerConnects
    /\ clients' = [clients EXCEPT ![call.client] = connect(@, call.with_db, out)]
    /\ connecting' = [connecting EXCEPT !.awaiting = @ \ {call}]
    /\ UNCHANGED <<clientVars, txnVars, insertVars, prefetchVars>>

\* A caller calls close() on client object c that holds a handle.
CloseObject(c) ==
    /\ clients[c].connected
    /\ clients' = [clients EXCEPT ![c] = close_object(@)]
    /\ UNCHANGED <<connecting, clientVars, txnVars, insertVars, prefetchVars>>

Hosts == {"db1.example", "db2.example"}

Ports == { [kind |-> "int", num |-> 33, text |-> <<>>],
           [kind |-> "str", num |-> 0, text |-> <<"3", "3">>] }

Users == {"alice", "bob"}

Passwords == {"secret1", "secret2"}

\* The keyword options given besides the named parameters; connection_name
\* is always among them, the base class constructor taking it from them.
Kwargs ==
    { << <<"connection_name", "default">> >>,
      << <<"connection_name", "default">>, <<"charset", "utf8">>,
         <<"db", "other">> >> }

\* The client objects that constructors can make.
ClientObjects ==
    { MySQLClient(u, pw, "shop", h, p, kw) :
        u \in Users, pw \in Passwords, h \in Hosts, p \in Ports, kw \in Kwargs }

\* No create_connection has been called.
NoConnecting == [begun |-> 0, awaiting |-> {}]

\* Client 1 is made for one user, password and host, with either form of
\* port and options; client 2 for the same or any other.
InitConnect ==
    /\ clients \in { cs \in [ClientIds -> ClientObjects] :
                        /\ cs[1].user = "alice" /\ cs[1].password = "secret1"
                        /\ cs[1].host = "db1.example" }
    /\ connecting = NoConnecting

\* No client object made, for the specifications of the other subsystems.
IdleConnect ==
    /\ clients = <<>>
    /\ connecting = NoConnecting

NextConnect ==
    \/ \E c \in ClientIds, with_db \in BOOLEAN : CreateConnection(c, with_db)
    \/ \E call \in connecting.awaiting, out \in OwnerConnects :
          ConnectionDone(call, out)
    \/ \E c \in ClientIds : CloseObject(c)

(***************************************************************************)
(* Initial state and specifications                                        *)
(***************************************************************************)

\* MySQLClient.__init__; on the server the database of the client exists
\* (dbExists) or does not.
NewClient(dbExists) ==
    [ connection |-> None, open |-> {}, created |-> 0,
      lock |-> [holder |-> None, waiters |-> <<>>],
      dbExists |-> dbExists, calls |-> 0, stale |-> {}, issuer |-> None ]

InitClient ==
    /\ client = NewClient(TRUE)
    /\ task = [t \in Tasks |-> IdleTask]
    /\ last = IdleTask

\* A new client, for a database that exists or is still to be created.
InitServer ==
    /\ client \in { NewClient(dbExists) : dbExists \in BOOLEAN }
    /\ task = [t \in Tasks |-> IdleTask]
    /\ last = IdleTask

NextClient ==
    \/ \E t \in Tasks, op \in Primitives : Call(t, op)
    \/ \E t \in Tasks : Resume(t)
    \/ \E t \in Tasks, out \in Failures \cup {"ok"} : ExecDone(t, out)
    \/ \E t \in Tasks : ResumeReconnect(t)
    \/ \E t \in Tasks, out \in {"ok", "pymysql.err.OperationalError"} :
          ReconnDone(t, out)
    \/ \E t \in Tasks, op \in {"create_connection", "db_create", "db_delete"} : Connect(t, op)
    \/ \E t \in Tasks, out \in {"ok", "pymysql.err.OperationalError"} :
          ConnectDone(t, out)
    \/ \E t \in Tasks : Close(t)

Init == InitClient /\ InitTxn /\ InitInsert /\ IdlePrefetch /\ IdleConnect

InitWorlds == InitClient /\ InitTxn /\ InitInsert /\ InitPrefetch /\ IdleConnect

InitObjects == InitClient /\ InitTxn /\ InitInsert /\ IdlePrefetch /\ InitConnect

InitServers == InitServer /\ InitTxn /\ InitInsert /\ IdlePrefetch /\ IdleConnect

SpecClient == InitServers /\ [][NextClient]_vars

SpecTxn == Init /\ [][NextTxn]_vars

SpecInsert == Init /\ [][NextInsert]_vars

SpecPrefetch == InitWorlds /\ [][NextPrefetch]_vars

SpecConnect == InitObjects /\ [][NextConnect]_vars

(***************************************************************************)
(* Claims on the client                                                    *)
(***************************************************************************)

\* C1: a call of an execution primitive enters the wrapped function at
\* most twice and calls create_connection at most once; when the retried
\* attempt succeeds the caller receives the successful result and exactly
\* one reconnect cycle (one _close, one create_connection) was performed;
\* when the retried attempt fails with a connection-level failure too, that
\* second failure is what leaves the reconnect wrapper.
C1_ReconnectOnce ==
    /\ \A t \in Tasks :
          /\ task[t].attempt <= 2 /\ task[t].stmts <= 2
          /\ task[t].creates <= 1 /\ task[t].closes <= 1
    /\ last.op \in Primitives =>
          /\ last.attempt <= 2 /\ last.stmts <= 2
          /\ last.creates <= 1 /\ last.closes <= 1
          /\ (last.attempt = 2 /\ last.out = "ok") =>
                /\ last.result = ReturnValue(last.op)
                /\ last.creates = 1 /\ last.closes = 1
          /\ (last.attempt = 2 /\ last.out \in RetryCaught) =>
                /\ last.raw = last.out
                /\ last.creates = 1 /\ last.closes = 1

\* A query whose first attempt failed, was retried after one reconnection
\* and returned rows.
C1_Witness ==
    /\ last.op = "execute_query" /\ last.attempt = 2 /\ last.stmts = 2
    /\ last.out = "ok" /\ last.result = "rows"

\* C9: when DROP DATABASE fails because the database does not exist,
\* db_delete returns without raising and the client is disconnected.
C9_IdempotentDrop ==
    (last.op = "db_delete" /\ last.missing) =>
        (last.result = "None" /\ last.disconnected)

\* C10: every driver failure (interface errors and runtime faults
\* included) that escapes an execution primitive reaches the caller as an
\* operational or integrity taxonomy error.
C10_AllTranslated ==
    (last.op \in Primitives /\ last.raw \in Failures) =>
        last.result \in {"OperationalError", "IntegrityError"}

\* C11: when the reconnection of a call fails to re-establish the
\* connection, the caller receives a connection error: the call does not
\* return a result and does not reconnect a second time.
C11_ReconnectFailureReported ==
    (last.op \in Primitives /\ last.reconnected = "failed") =>
        /\ last.result = "DBConnectionError"
        /\ last.creates = 1 /\ last.closes = 1

\* C12: no statement is in flight while a reconnection is in progress, and
\* while the client holds an open connection no call issues its first
\* statement on a handle that a reconnection has closed, whenever the call
\* queued for the lock.
C12_NoStatementOnStaleHandle ==
    /\ \A t, u \in Tasks : task[t].pc = "reconn" => task[u].pc # "exec"
    /\ \A t \in Tasks :
          ( /\ task[t].pc = "exec" /\ task[t].attempt = 1
            /\ client.connection \in client.open ) =>
              task[t].conn \notin client.stale

\* The tasks queued for the lock.
Waiting == { client.lock.waiters[i] : i \in 1..Len(client.lock.waiters) }

\* C13: a task between calls neither holds the lock nor queues for it; the
\* task issuing a statement or reconnecting is the holder, so at most one
\* does; the holder is never queued behind itself; and every queued task
\* waits behind a holder that has a step to take, so no call waits forever.
C13_LockReleased ==
    /\ \A t \in Tasks :
          /\ task[t].pc \in {"idle", "connect"} =>
                (client.lock.holder # t /\ t \notin Waiting)
          /\ task[t].pc \in {"exec", "reconn"} =>
                (client.lock.holder = t /\ t \notin Waiting)
          /\ task[t].pc \in {"wait", "waitR"} =>
                (client.lock.holder = t) # (t \in Waiting)
    /\ \A i, j \in 1..Len(client.lock.waiters) :
          client.lock.waiters[i] = client.lock.waiters[j] => i = j
    /\ client.lock.holder = None => Waiting = {}
    /\ client.lock.holder # None =>
          task[client.lock.holder].pc \in {"exec", "reconn", "wait", "waitR"}

\* A call whose reconnection failed has ended with a failure, and the
\* task that queued behind it has been handed the lock.
C13_Witness ==
    /\ last.op \in Primitives /\ last.reconnected = "failed"
    /\ last.result \notin {"rows", "lastrowid", "None"}
    /\ \E t \in Tasks : task[t].pc = "wait" /\ client.lock.holder = t

\* C15: statements are issued in the order of their calls; in particular
\* the statements of one call are consecutive: when a call issues its
\* retried statement, no statement of another call was issued since its
\* first.
C15_IssuedInCallOrder ==
    [][ \A t \in Tasks :
          (task[t].pc # "exec" /\ task'[t].pc = "exec" /\ task'[t].stmts = 2)
              => client.issuer = t ]_vars

\* The failures that are not connection-level.
OtherFailures == Failures \ ConnectionLevel

\* C18: no reconnection is ever set off by a failure that is not
\* connection-level; a call that such a failure ends issued no statement
\* after it, closed and created no connection because of it, and its
\* caller receives the translation of that failure.
C18_OtherFailuresPropagate ==
    /\ \A t \in Tasks : task[t].trigger # "other"
    /\ last.trigger # "other"
    /\ (last.op \in Primitives /\ last.out \in OtherFailures) =>
          /\ last.raw = last.out
          /\ last.result = (IF last.out = "pymysql.err.IntegrityError"
                            THEN "IntegrityError" ELSE "OperationalError")
          /\ last.stmts = last.attempt
          /\ last.creates = last.attempt - 1 /\ last.closes = last.attempt - 1
          /\ last.attempt = 1 => last.reconnected = "none"

\* A first attempt ended with a constraint violation: one statement, no
\* reconnection, IntegrityError for the caller.
C18_Witness ==
    /\ last.op \in Primitives
    /\ last.out = "pymysql.err.IntegrityError"
    /\ last.attempt = 1 /\ last.stmts = 1 /\ last.creates = 0
    /\ last.result = "IntegrityError"

\* C19: close() leaves the client without a connection handle; so does a
\* reconnection whose create_connection fails; a reconnection that
\* succeeds leaves it with an open handle that is none of the closed ones.
C19_StateMachine ==
    [][ /\ (last' # last /\ last'.op = "close") => client'.connection = None
        /\ \A t \in Tasks :
              (task[t].pc = "reconn" /\ task'[t].pc # "reconn") =>
                  IF client'.created = client.created
                  THEN client'.connection = None
                  ELSE /\ client'.connection \in client'.open
                       /\ client'.connection \notin client'.stale ]_vars

(***************************************************************************)
(* Claims on transaction scopes                                            *)
(***************************************************************************)

\* C2: on every scope at most one commit()/rollback() call returns
\* normally and at most one commit or rollback statement is issued; the
\* first call sets the finalized flag, and a call on a finalized scope fails
\* with TransactionManagementError without issuing a statement.
C2_FinalizeOnce ==
    /\ \A s \in 1..Len(scope) :
          /\ scope[s].returned <= 1 /\ scope[s].stmts <= 1
          /\ scope[s].stmts > 0 => scope[s].finalized
    /\ txlast.op \in {"commit", "rollback"} =>
          /\ scope[txlast.scope].finalized
          /\ txlast.finalized =>
                /\ txlast.result = "TransactionManagementError"
                /\ ~txlast.stmt

\* A rollback refused on a scope whose commit had succeeded.
C2_Witness ==
    /\ txlast.op = "rollback" /\ txlast.finalized
    /\ txlast.result = "TransactionManagementError"
    /\ scope[txlast.scope].returned = 1 /\ scope[txlast.scope].stmts = 1

\* C3: a start() that returns has recorded the context value of the
\* scope's connection name (the value current when begin() returned) and
\* installed the scope as current; commit() or rollback() on a
\* non-finalized scope leaves the context at the value the scope recorded
\* (so that scopes finalized in LIFO order unwind to the enclosing scope
\* and finally to the value before the outermost start).
C3_ContextRestored ==
    [][ /\ (txlast'.op = "start" /\ txlast'.result = "None") =>
              /\ scope'[txlast'.scope].old = ctx[scope[txlast'.scope].name]
              /\ ctx'[scope[txlast'.scope].name] = txlast'.scope
        /\ (txlast'.op \in {"commit", "rollback"} /\ ~txlast'.finalized) =>
              ctx'[scope[txlast'.scope].name] = scope'[txlast'.scope].old
      ]_vars

\* C14: while a scope is live (created over a handle of its owning client,
\* not finalized) and its owner has a handle (it has not been closed), the
\* scope's connection handle is the owner's current handle, also after a
\* reconnection through the owner or through the scope. (The lock is the
\* one object handed over at creation and never replaced.)
C14_ScopeSharesOwnerHandle ==
    \A s \in 1..Len(scope) :
        ( /\ ~scope[s].finalized /\ scope[s].conn # None
          /\ owner[scope[s].name].connection # None ) =>
            scope[s].conn = owner[scope[s].name].connection

\* C20: the context value of a connection name is none or a scope that
\* has been started and is not finalized, whatever the order of the
\* start, commit and rollback calls and however their statements end.
C20_ContextNeverFinalized ==
    \A name \in ConnNames :
        ctx[name] # None =>
            /\ scope[ctx[name]].started
            /\ ~scope[ctx[name]].finalized

(***************************************************************************)
(* Claims on the insert-plan cache                                         *)
(***************************************************************************)

\* C7: for every key the insert statement is built at most once, by the
\* first insert that uses the key; the entry stored then is never removed
\* or replaced, and every insert runs the stored statement.
C7_BuiltOncePerKey ==
    /\ DOMAIN INSERT_CACHE = {k \in CacheKeys : inserts.used[k] > 0}
    /\ \A k \in CacheKeys :
          /\ inserts.builds[k] <= 1
          /\ inserts.used[k] > 0 =>
                /\ inserts.builds[k] = 1
                /\ INSERT_CACHE[k] = inserts.first[k]
    /\ \A c \in inserts.inflight : c.query = INSERT_CACHE[c.key][3]

\* Two inserts for one key are awaiting the database, the plan built once.
C7_Witness ==
    \E c1, c2 \in inserts.inflight :
        /\ c1.call # c2.call /\ c1.key = c2.key
        /\ inserts.builds[c1.key] = 1 /\ inserts.used[c1.key] >= 2

(***************************************************************************)
(* Claims on relation prefetch                                             *)
(***************************************************************************)

\* A fetch_for_list of one plain relation name on a non-empty list, begun
\* on an executor with no related query stored, has ended.
SingleRelation ==
    /\ fetched.op = "fetch_for_list" /\ fetched.ended
    /\ fetched.fresh
    /\ world.instance_list # <<>>
    /\ Len(fetched.args) = 1
    /\ fetched.args[1] \in FetchFields("A")

\* No instance of the list has a foreign key for relation d.
NoForeignKey ==
    \A i \in 1..Len(world.instance_list) : world.instance_list[i].fk = None

\* C4, as stated: prefetching a single relation of any variant, without
\* nested prefetch, on a non-empty list issues exactly one query, whatever
\* the length of the list and the foreign keys of its instances.
C4_OneQuery == SingleRelation => fetched.queries = 1

\* C4, amended: a reverse or many-to-many relation issues exactly one
\* query; a direct relation issues one query if some instance of the list
\* has a foreign key and none otherwise; the count never depends on the
\* length of the list.
C4_OneQueryIfKeyed ==
    SingleRelation =>
        fetched.queries = (IF fetched.args[1] = <<"d">> /\ NoForeignKey
                           THEN 0 ELSE 1)

\* A direct relation was prefetched in one query on a list of several
\* instances, some with and some without a foreign key.
C4_Witness ==
    /\ SingleRelation
    /\ fetched.args[1] = <<"d">>
    /\ Len(world.instance_list) >= 2
    /\ \E i, j \in 1..Len(world.instance_list) :
          world.instance_list[i].fk = None /\ world.instance_list[j].fk # None
    /\ fetched.queries = 1

\* The positions of the paths whose first segment is no relation field.
Unknown(args) ==
    { i \in 1..Len(args) : Split(args[i])[1] \notin FetchFields("A") }

\* C5: a fetch_for_list whose paths include one with an undeclared first
\* segment raises OperationalError naming that segment and the table of
\* the model, and issues no query, wherever the path stands in the list.
C5_UnknownRelationRaises ==
    (fetched.op = "fetch_for_list" /\ Unknown(fetched.args) # {}) =>
        LET k == CHOOSE i \in Unknown(fetched.args) :
                     \A j \in Unknown(fetched.args) : i <= j
        IN  /\ fetched.error = << "OperationalError",
                                  Split(fetched.args[k])[1], TableOf("A") >>
            /\ fetched.queries = 0

\* A call with the unknown path between two valid ones, on a non-empty
\* list and an executor that has related queries stored, has raised.
C5_Witness ==
    /\ fetched.op = "fetch_for_list"
    /\ Len(fetched.args) = 3 /\ Unknown(fetched.args) = {2}
    /\ world.instance_list # <<>>
    /\ ~fetched.fresh
    /\ fetched.error # <<>>

\* How many times x occurs in a sequence.
Count(seq, x) == Cardinality({ i \in 1..Len(seq) : seq[i] = x })

\* Row x of B exists and its foreign key names parent p.
ChildOf(x, p) ==
    \E j \in 1..Len(world.b) : world.b[j].id = x /\ world.b[j].fk = p

\* Row x of B exists and a row of the through table links parent p to it.
LinkedTo(x, p) ==
    /\ \E j \in 1..Len(world.b) : world.b[j].id = x
    /\ \E k \in 1..Len(world.through) : world.through[k] = <<p, x>>

\* The ids rows of B can have.
RelatedIds == { world.b[j].id : j \in 1..Len(world.b) } \cup {None}

\* C6: after a prefetch of the reverse relation every instance holds
\* exactly the rows whose foreign key is its id, and after a prefetch of
\* the many-to-many relation exactly the rows linked to its id, each once;
\* an instance with no such row holds the empty list.
C6_GroupedByParent ==
    (fetched.op = "fetch_for_list" /\ fetched.ended /\ fetched.error = <<>>) =>
        /\ <<"r">> \in DOMAIN fetched.attached =>
              \A i \in 1..Len(world.instance_list) :
                  LET got == fetched.attached[<<"r">>][i]
                  IN  /\ \A x \in RelatedIds :
                            Count(got, x) =
                                (IF ChildOf(x, world.instance_list[i].id)
                                 THEN 1 ELSE 0)
                      /\ \A k \in 1..Len(got) : got[k] \in RelatedIds
        /\ <<"m">> \in DOMAIN fetched.attached =>
              \A i \in 1..Len(world.instance_list) :
                  LET got == fetched.attached[<<"m">>][i]
                  IN  /\ \A x \in RelatedIds :
                            Count(got, x) =
                                (IF LinkedTo(x, world.instance_list[i].id)
                                 THEN 1 ELSE 0)
                      /\ \A k \in 1..Len(got) : got[k] \in RelatedIds

\* Both relations were prefetched on a list holding a parent of two rows
\* and a parent of none.
C6_Witness ==
    /\ fetched.op = "fetch_for_list" /\ fetched.ended /\ fetched.error = <<>>
    /\ {<<"r">>, <<"m">>} \subseteq DOMAIN fetched.attached
    /\ \E i, j \in 1..Len(world.instance_list) :
          /\ Len(fetched.attached[<<"r">>][i]) = 2
          /\ Len(fetched.attached[<<"m">>][i]) = 2
          /\ fetched.attached[<<"r">>][j] = <<>>
          /\ fetched.attached[<<"m">>][j] = <<>>

\* Where the first separator of a path begins; past its end when it has
\* none.
SepIndex(p) ==
    IF \E i \in 1..Len(p) : IsSepAt(p, i)
    THEN CHOOSE i \in 1..Len(p) :
             IsSepAt(p, i) /\ \A j \in 1..(i - 1) : ~IsSepAt(p, j)
    ELSE Len(p) + 1

FirstSegment(p) == SubSeq(p, 1, SepIndex(p) - 1)

Suffix(p) == SubSeq(p, SepIndex(p) + 2, Len(p))

\* The map the paths call for: their first segments, each with the
\* non-empty suffixes of the paths that start with it.
ExpectedMap(args) ==
    [ f \in { FirstSegment(args[i]) : i \in 1..Len(args) } |->
        { Suffix(args[i]) : i \in { k \in 1..Len(args) :
                                       FirstSegment(args[k]) = f } } \ {<<>>} ]

\* C8: when the related query of the many-to-many relation carries nested
\* relations and related objects were fetched, each nested relation has
\* been prefetched on them: a call that asked for nested relations of m
\* and ended without error has run each of them below m.
C8_NestedPrefetched ==
    ( /\ fetched.op = "fetch_for_list" /\ fetched.ended /\ fetched.error = <<>>
      /\ <<"m">> \in DOMAIN ExpectedMap(fetched.args)
      /\ HeldRelations # {} ) =>
        \A n \in ExpectedMap(fetched.args)[<<"m">>] :
            << <<"m">>, n >> \in fetched.ran

\* C17: after a fetch_for_list whose paths all validate, the executor's
\* prefetch map has exactly the first segments of the paths as keys, each
\* mapped to the set of non-empty suffixes of the paths starting with it,
\* whatever the order of the paths and whatever map the executor held
\* before the call.
C17_MapRebuilt ==
    (fetched.op = "fetch_for_list" /\ fetched.began /\ fetched.error = <<>>) =>
        executor.prefetch_map = ExpectedMap(fetched.args)

\* A bare path after its nested form, on an executor an earlier call had
\* used for other relations.
C17_Witness ==
    /\ fetched.op = "fetch_for_list" /\ fetched.began /\ fetched.error = <<>>
    /\ fetched.args = << <<"r", "_", "_", "n">>, <<"r">> >>
    /\ ~fetched.fresh
    /\ <<"m">> \in DOMAIN executor.prefetch_queries
    /\ executor.prefetch_map = [f \in {<<"r">>} |-> {<<"n">>}]

\* Does prefetching relation f of model A on the held instances issue a
\* query ? A direct relation does if some instance has a foreign key.
IssuesQuery(f) == Relation("A", f).kind # "direct" \/ ~NoForeignKey

\* C21: a fetch_for_list call issues prefetch queries only for the first
\* segments of its own paths, not for relations that only an earlier call
\* on the same executor had requested.
C21_OwnRelationsOnly ==
    (fetched.op = "fetch_for_list" /\ fetched.ended /\ fetched.error = <<>>) =>
        \A f \in FetchFields("A") :
            (<<f>> \in fetched.ran /\ IssuesQuery(f)) =>
                \E i \in 1..Len(fetched.args) :
                    FirstSegment(fetched.args[i]) = f

(***************************************************************************)
(* Claims on connection parameters                                         *)
(***************************************************************************)

\* Two client objects whose latest create_connection failed, the failures
\* formatting a _template written the same way.
BothFailed(a, b) ==
    /\ clients[a].raised # <<>> /\ clients[b].raised # <<>>
    /\ clients[a].formatted = clients[b].formatted

SameServer(a, b) ==
    /\ clients[a].host = clients[b].host /\ clients[a].port = clients[b].port
    /\ clients[a].database = clients[b].database
    /\ clients[a].extra = clients[b].extra

\* C16: the message of a failed create_connection carries host, port,
\* database and extra options and no credentials, so that two clients
\* differing only in user name and password, failing on a _template written
\* by the same kind of call, fail with identical messages.
C16_NoCredentials ==
    \A a, b \in ClientIds :
        (BothFailed(a, b) /\ SameServer(a, b)) =>
            clients[a].raised = clients[b].raised

====
